---- MODULE Spec2Model ----
(***************************************************************************)
(* SecreTTY: the PTY-mediated redaction pipeline.                          *)
(*                                                                         *)
(* Bytes are modelled by their integer values and byte strings by          *)
(* sequences of them.  The module holds several specifications, one per    *)
(* subsystem, over one set of variables; a specification leaves the        *)
(* variables of the other subsystems at their initial values.              *)
(*   SpecTok     the ANSI tokenizer (internal/ansi)                        *)
(*   SpecStream  the redaction stream (internal/redact) with the detector  *)
(*               and the masker behind it                                  *)
(*   SpecSession one run of the wrapper (cmd/secretty): cache, allowlist,  *)
(*               stream and IPC server (internal/ipc)                      *)
(***************************************************************************)
EXTENDS Integers, Sequences, FiniteSets, TLC

(***************************************************************************)
(* Bounds of the model.                                                    *)
(***************************************************************************)
\* Total number of bytes pushed into the tokenizer in one behaviour.
MaxTokLen == 4
\* Total number of bytes written to the redaction stream in one behaviour.
MaxStreamLen == 4
\* Chunks the output mover copies in one session.
MaxSessWrites == 1
\* ttl_seconds of the sessions' configuration.
CacheTTL == 1
\* rolling_window_bytes of the sessions' configuration.
SessWindow == 2

(***************************************************************************)
(* Byte values the code names.                                             *)
(***************************************************************************)
ESC == 27
BEL == 7
LBracket == 91
RBracket == 93
LetterP == 80
LetterX == 88
Caret == 94
Underscore == 95
Backslash == 92
CsiFinalLo == 64
CsiFinalHi == 126
\* Two bytes used as payload: a CSI parameter byte and a CSI final byte.
Digit0 == 48
LetterM == 109
\* '\n', and the bytes of the label pattern and of the modelled rule.
Newline == 10
Colon == 58
EqualsSign == 61
Hyphen == 45
LetterK == 75
LetterS == 115
\* The bytes of command names, paths and allowlist patterns.
Slash == 47
Star == 42
Question == 63
Dot == 46
LetterV == 118
LetterG == 103
LetterB == 98
\* The bytes of the terminal's responses that the response filter tests.
Digit1 == 49
Digit9 == 57
Semicolon == 59
LetterR == 82
\* '|', and the length of a SHA-256 digest in hex digits.
Pipe == 124
DigestLen == 64
\* {0,63}: the bytes a label may have after its first.
LabelTail == 63
\* The zero time.Time.
ZeroTime == 0
\* A byte drawn by randomHexNibble: one of the sixteen hex digits, which
\* the model does not tell apart.  No byte of the input alphabets is one.
HexNibble == -1

VARIABLES
    tokenizer,   \* ansi.Tokenizer: [state, escBuf, escInString]
    pushed,      \* every byte handed to Push so far, in order
    segments,    \* every segment returned by Push and Flush so far, in order
    lastPush,    \* the segments returned by the most recent Push or Flush
    flushed,     \* Tokenizer.Flush has been called
    collected,   \* the bytes the client has collected for its next Push
    stream,      \* redact.Stream: its fields, and the positions of its bytes
    sink,        \* the writes the stream's out has received, in order
    cache,       \* cache.Cache: [lru, maxEntries, ttl, lastID]
    clock,       \* time.Now()
    input,       \* every byte handed to Stream.Write so far, in order
    pending,     \* bytes the child has produced that no Write has carried yet
    closed,      \* Stream.Close has been called
    escSeen,     \* the ESCAPE segments the stream's tokenizer has returned
    reported,    \* input positions inside a match the detector has reported
    puts,        \* the number of records handed to Cache.Put
    config,      \* config.Config: the fields the runner and the stream read
    cmd,     \* the child cmd: [argv0, lookPath]
    interactive, \* the interactive argument of runWithPTY
    pc,          \* where the session is: start, ready, running, done
    stateCache,  \* state.cache is not nil
    output,      \* what RunCommand writes child output to: stream or stdout
    ipc,         \* an IPC server is listening
    envAdded,    \* the variables runWithPTY has added to the child's environment
    resp,        \* the last response the IPC server has written
    copied,      \* the bytes the last request has handed to the copy callback
    writes,      \* the number of chunks the output mover has copied
    runPc,       \* where RunCommand is
    moverPc,     \* where the goroutine copyWithContext is
    ctxDone,     \* cancel() has been called: ctx.Done() is closed
    errCh,       \* the values in the channel errCh, of capacity 1
    ptmxClosed,  \* ptmx.Close() has been called
    outClosed,   \* closeOutput(out) has been called
    child,       \* the child: [state, how, status], status its wait status
    ptyData,     \* chunks the child has written that the mover has not read
    moved,       \* chunks the mover has copied to the output
    runFail,     \* the step of RunCommand that fails in this run, or "none"
    runResult,   \* what RunCommand has returned: [code, err]
    putLog,      \* the calls of Cache.Put that store a record, in order
    recency,     \* the IDs put or found by Get or GetLast, latest access first
    findCfg,     \* the configuration an Engine is built from
    findText,    \* the text handed to Engine.Find
    findCands,   \* the candidates the passes of Find have produced
    findOut,     \* the matches Find has returned
    findPc,      \* where Find is
    maskCfg,     \* the configuration a Redactor is built from
    maskIn,      \* the span and the match handed to Redactor.replacement
    maskOut,     \* the bytes Redactor.replacement has returned
    maskPc,      \* where the client of the Redactor is
    sigCh,       \* the signals in the channel ch of forwardSignals
    sigTaken,    \* the signals the goroutine of forwardSignals has received
    ptmxIn,      \* the bytes written to the PTY master by forwardSignals
    procSignals, \* the signals sent to the child with proc.Signal
    resizes,     \* the calls of pty.InheritSize made for SIGWINCH
    sigOn,       \* signal.Notify is in force for ch
    isTTY,       \* the host's stdin is a terminal
    hostTerm,    \* the mode of the host terminal: "cooked" or "raw"
    restoreLog,  \* the calls of term.Restore, with what had been done by then
    mu,          \* the goroutine that holds Cache.mu, or "none"
    thr,         \* for each client goroutine of a cache: the call it is in
    stdinText,   \* the bytes the host's stdin delivers in this run
    stdinPos,    \* how many of them reader.Read has returned to copyInput
    filter,      \* the responseFilter of copyInput: [active, buffer]
    inPc,        \* where copyInput is: "read" (in reader.Read) or "done"
    ptyInput     \* the bytes copyInput has written to the PTY master

tokVars ==
    <<tokenizer, pushed, segments, lastPush, flushed, collected>>

streamVars ==
    <<stream, sink, cache, clock, input, pending, closed, escSeen, reported,
      puts>>

sessVars ==
    <<config, cmd, interactive, pc, stateCache, output, ipc, envAdded, resp,
      copied, writes>>

runVars ==
    <<runPc, moverPc, ctxDone, errCh, ptmxClosed, outClosed, child, ptyData,
      moved, runFail, runResult>>

\* The variables of the specifications that follow SpecSession.
cacheVars == <<putLog, recency>>

findVars == <<findCfg, findText, findCands, findOut, findPc>>

maskVars == <<maskCfg, maskIn, maskOut, maskPc>>

sigVars == <<sigCh, sigTaken, ptmxIn, procSignals, resizes, sigOn>>

termVars == <<isTTY, hostTerm, restoreLog>>

lockVars == <<mu, thr>>

inVars == <<stdinText, stdinPos, filter, inPc, ptyInput>>

ptyVars == <<sigVars, termVars, lockVars, inVars>>

extVars == <<runVars, cacheVars, findVars, maskVars, ptyVars>>

vars == <<tokVars, streamVars, sessVars, extVars>>

(***************************************************************************)
(* Generic helpers on sequences.                                           *)
(***************************************************************************)
RECURSIVE ConcatBytes(_)
\* The concatenation of the Bytes of a sequence of segments.
ConcatBytes(segs) ==
    IF segs = <<>> THEN <<>>
    ELSE Head(segs).Bytes \o ConcatBytes(Tail(segs))

\* The segments of one kind, in order.
OfKind(segs, kind) == SelectSeq(segs, LAMBDA g : g.Kind = kind)

(***************************************************************************)
(* internal/ansi: the tokenizer.                                           *)
(***************************************************************************)
SegmentText == "TEXT"
SegmentEscape == "ESCAPE"

Segment(kind, bytes) == [Kind |-> kind, Bytes |-> bytes]

\* The zero value of ansi.Tokenizer.
NewTokenizer == [state |-> "stateText", escBuf |-> <<>>, escInString |-> FALSE]

\* The closure flushText of Push, on the accumulator of one Push call.
FlushText(a) ==
    IF Len(a.textBuf) = 0 THEN a
    ELSE [a EXCEPT !.segs = Append(@, Segment(SegmentText, a.textBuf)),
                   !.textBuf = <<>>]

\* The closure flushEsc of Push.
FlushEsc(a) ==
    IF Len(a.escBuf) = 0 THEN a
    ELSE [a EXCEPT !.segs = Append(@, Segment(SegmentEscape, a.escBuf)),
                   !.escBuf = <<>>,
                   !.escInString = FALSE,
                   !.state = "stateText"]

\* The state an introducer byte after ESC selects; "" when it is none.
IntroducerState(b) ==
    CASE b = LBracket -> "stateCSI"
      [] b = RBracket -> "stateOSC"
      [] b = LetterP -> "stateDCS"
      [] b = LetterX -> "stateSOS"
      [] b = Caret -> "statePM"
      [] b = Underscore -> "stateAPC"
      [] OTHER -> ""

\* One iteration of the loop of Push: the switch on t.state for byte b.
PushByte(a, b) ==
    CASE a.state = "stateText" ->
            IF b = ESC
            THEN [FlushText(a) EXCEPT !.escBuf = Append(@, b),
                                      !.state = "stateEscStart"]
            ELSE [a EXCEPT !.textBuf = Append(@, b)]
      [] a.state = "stateEscStart" ->
            LET a1 == [a EXCEPT !.escBuf = Append(@, b)]
            IN  IF IntroducerState(b) # ""
                THEN [a1 EXCEPT !.state = IntroducerState(b)]
                ELSE FlushEsc(a1)
      [] a.state = "stateCSI" ->
            LET a1 == [a EXCEPT !.escBuf = Append(@, b)]
            IN  IF b >= CsiFinalLo /\ b <= CsiFinalHi THEN FlushEsc(a1) ELSE a1
      [] OTHER ->
            \* stateOSC, stateDCS, stateSOS, statePM, stateAPC
            LET a1 == [a EXCEPT !.escBuf = Append(@, b)]
            IN  IF a1.state = "stateOSC" /\ b = BEL THEN FlushEsc(a1)
                ELSE IF a1.escInString
                     THEN IF b = Backslash THEN FlushEsc(a1)
                          ELSE [a1 EXCEPT !.escInString = FALSE]
                     ELSE IF b = ESC THEN [a1 EXCEPT !.escInString = TRUE]
                          ELSE a1

RECURSIVE PushLoop(_, _)
\* The loop of Push over the bytes of data.
PushLoop(a, data) ==
    IF data = <<>> THEN a
    ELSE PushLoop(PushByte(a, Head(data)), Tail(data))

\* A Push call that forgets the tokenizer state of the previous call.
PushStartFresh(t) ==
    [state |-> "stateText", escBuf |-> <<>>, escInString |-> FALSE,
     segs |-> <<>>, textBuf |-> <<>>]

\* The accumulator at the start of a Push call: the fields of the tokenizer
\* as the previous call left them, no segment and no text collected yet.
PushStart(t) ==
    [state |-> t.state, escBuf |-> t.escBuf, escInString |-> t.escInString,
     segs |-> <<>>, textBuf |-> <<>>]

\* The end of Push: text still collected is returned only in stateText.
PushEnd(a) == IF a.state = "stateText" THEN FlushText(a) ELSE a

\* Tokenizer.Push: [t |-> the tokenizer afterwards, segs |-> what it returns].
Push(t, data) ==
    LET a == PushEnd(PushLoop(PushStart(t), data))
    IN  [t |-> [state |-> a.state, escBuf |-> a.escBuf,
                escInString |-> a.escInString],
         segs |-> a.segs]

\* A Flush that drops the pending escape bytes.
FlushDropping(t) == [t |-> NewTokenizer, segs |-> <<>>]

\* Tokenizer.Flush: the pending bytes as one ESCAPE segment.
Flush(t) ==
    IF t.state = "stateText" THEN [t |-> t, segs |-> <<>>]
    ELSE [t |-> NewTokenizer, segs |-> <<Segment(SegmentEscape, t.escBuf)>>]

(***************************************************************************)
(* Byte strings and offsets.  Offsets are Go's: the first byte is at 0     *)
(* and a span [a, b) leaves b out.                                         *)
(***************************************************************************)
\* text[a:b]
Slice(text, a, b) == SubSeq(text, a + 1, b)

\* text[i]
At(text, i) == text[i + 1]

\* bytes.Contains(text, pat)
Contains(text, pat) ==
    \E i \in 0..(Len(text) - Len(pat)) : Slice(text, i, i + Len(pat)) = pat

\* The offsets a..b-1 as a set.
Span(a, b) == {i \in a..(b - 1) : TRUE}

RECURSIVE InsertByKey(_, _)
\* A pair <<key, x>> put into a list of pairs sorted by key, after the
\* pairs of equal key.
InsertByKey(p, sorted) ==
    IF sorted = <<>> THEN <<p>>
    ELSE IF p[1] < Head(sorted)[1] THEN <<p>> \o sorted
         ELSE <<Head(sorted)>> \o InsertByKey(p, Tail(sorted))

RECURSIVE SortPairs(_)
SortPairs(ps) ==
    IF ps = <<>> THEN <<>>
    ELSE InsertByKey(ps[Len(ps)], SortPairs(SubSeq(ps, 1, Len(ps) - 1)))

(***************************************************************************)
(* internal/detect: the engine, holding one regex rule.  The rule is       *)
(* env_private_key, \bPRIVATE_KEY\s*=\s*([^\s]+) with group 1, action      *)
(* mask and severity high; the letter K stands for the keyword.            *)
(***************************************************************************)
\* \s of the regexp package.
RegexSpace == {9, 10, 12, 13, 32}

IsSpace(b) == b \in RegexSpace

\* \w of the regexp package, which \b is defined by.
IsWord(b) ==
    \/ b >= 48 /\ b <= 57
    \/ b >= 65 /\ b <= 90
    \/ b = Underscore
    \/ b >= 97 /\ b <= 122

RECURSIVE SkipSpace(_, _)
\* The offset where the run of \s bytes that starts at offset i ends.
SkipSpace(text, i) ==
    IF i < Len(text) /\ IsSpace(At(text, i)) THEN SkipSpace(text, i + 1) ELSE i

RECURSIVE SkipNonSpace(_, _)
\* The offset where the run of [^\s] bytes that starts at offset i ends.
SkipNonSpace(text, i) ==
    IF i < Len(text) /\ ~IsSpace(At(text, i))
    THEN SkipNonSpace(text, i + 1) ELSE i

\* The match of the rule's pattern that begins at offset i, if there is one:
\* start and end are the bounds of group 1.
RuleMatchAt(text, i) ==
    LET n == Len(text)
        eq == SkipSpace(text, i + 1)
        g == SkipSpace(text, eq + 1)
        e == SkipNonSpace(text, g)
    IN  IF /\ i < n
           /\ At(text, i) = LetterK
           /\ (i = 0 \/ ~IsWord(At(text, i - 1)))
           /\ eq < n
           /\ At(text, eq) = EqualsSign
           /\ g < n
           /\ e > g
        THEN [ok |-> TRUE, start |-> g, end |-> e]
        ELSE [ok |-> FALSE, start |-> 0, end |-> 0]

SigChCap == 8
severityHigh == 3
severityMed == 2

\* The candidate findRegexMatches builds for group bounds [start, end).
Candidate(start, end) ==
    [match |-> [Start |-> start, End |-> end, Action |-> "mask",
                SecretType |-> "EVM_PK", RuleName |-> "env_private_key",
                ID |-> 0],
     severity |-> severityHigh,
     source |-> "sourceRegex",
     length |-> end - start]

RECURSIVE FindAllFrom(_, _)
\* FindAllStringSubmatchIndex from offset i on: leftmost matches that do
\* not overlap, each turned into a candidate.
FindAllFrom(text, i) ==
    IF i >= Len(text) THEN <<>>
    ELSE LET r == RuleMatchAt(text, i)
         IN  IF r.ok
             THEN <<Candidate(r.start, r.end)>> \o FindAllFrom(text, r.end)
             ELSE FindAllFrom(text, i + 1)

findRegexMatches(text) == FindAllFrom(text, 0)

\* The typed pass looks for 64 hex digits; the alphabets of this model hold
\* no hex digit, so it finds nothing.
findTypedMatches(text) == <<>>

betterCandidate(a, b) ==
    IF a.severity # b.severity THEN a.severity > b.severity
    ELSE IF a.source # b.source THEN a.source = "sourceTyped"
    ELSE IF a.length # b.length THEN a.length > b.length
    ELSE a.match.Start < b.match.Start

\* A sweep that keeps every candidate.
SweepKeepingAll(cands, out) == out \o cands

RECURSIVE Sweep(_, _)
\* The loop of resolveOverlaps over the sorted candidates.
Sweep(cands, out) ==
    IF cands = <<>> THEN out
    ELSE LET cand == Head(cands)
         IN  IF out = <<>> THEN Sweep(Tail(cands), <<cand>>)
             ELSE LET last == out[Len(out)]
                  IN  IF cand.match.Start >= last.match.End
                      THEN Sweep(Tail(cands), Append(out, cand))
                      ELSE IF betterCandidate(cand, last)
                           THEN Sweep(Tail(cands),
                                      [out EXCEPT ![Len(out)] = cand])
                           ELSE Sweep(Tail(cands), out)

\* resolveOverlaps: sort by (Start, End), then sweep.
resolveOverlaps(cands) ==
    LET n == Len(cands)
        ends == {cands[i].match.End : i \in 1..n}
        width == 1 + CHOOSE e \in ends : \A f \in ends : f <= e
        keyed == [i \in 1..n |->
                    <<cands[i].match.Start * width + cands[i].match.End,
                      cands[i]>>]
        sorted == SortPairs(keyed)
    IN  Sweep([i \in 1..n |-> sorted[i][2]], <<>>)

\* Engine.Find
Find(text) ==
    LET candidates == findRegexMatches(text) \o findTypedMatches(text)
    IN  IF candidates = <<>> THEN <<>>
        ELSE LET resolved == resolveOverlaps(candidates)
             IN  [i \in 1..Len(resolved) |-> resolved[i].match]

(***************************************************************************)
(* internal/redact: the redactor, configured as the default configuration  *)
(* does: block style, no stable hash token.  Its output is a sequence of   *)
(* cells [b, src, raw]: the byte written, the index in the text of the     *)
(* byte it stands for, and whether it is a copy of that byte.              *)
(***************************************************************************)
Cell(b, src, raw) == [b |-> b, src |-> src, raw |-> raw]

\* text[a:b] copied out.
CopyCells(text, a, b) ==
    [i \in 1..(b - a) |-> Cell(At(text, a + i - 1), a + i, TRUE)]

\* hexRandomSameLength on text[a:b]: a leading 0x or 0X is kept, every byte
\* after it is replaced by a random hex digit.
hexRandomSameLength(text, a, b) ==
    LET original == Slice(text, a, b)
        keep == IF /\ Len(original) >= 2
                   /\ original[1] = Digit0
                   /\ original[2] \in {120, LetterX}
                THEN 2 ELSE 0
    IN  CopyCells(text, a, a + keep)
        \o [i \in 1..(b - a - keep) |-> Cell(HexNibble, a + keep + i, FALSE)]

\* utf8.RuneStart(b): b is not a continuation byte.
RuneStart(b) == (b \div 64) # 2

\* The default block_char, U+2588, in UTF-8.
BlockChar == <<226, 150, 136>>

RECURSIVE maskBlock(_, _, _)
\* maskBlock on text[a:b]: block_char once per rune, a rune being counted
\* at its first byte.
maskBlock(text, a, b) ==
    IF a >= b THEN <<>>
    ELSE (IF RuneStart(At(text, a))
          THEN [i \in 1..Len(BlockChar) |-> Cell(BlockChar[i], a + 1, FALSE)]
          ELSE <<>>)
         \o maskBlock(text, a + 1, b)

\* isHexDigit
isHexDigit(b) ==
    \/ b >= 48 /\ b <= 57
    \/ b >= 97 /\ b <= 102
    \/ b >= 65 /\ b <= 70

\* looksHex
looksHex(original) ==
    LET body == IF /\ Len(original) >= 2
                   /\ original[1] = Digit0
                   /\ original[2] \in {120, LetterX}
                THEN SubSeq(original, 3, Len(original)) ELSE original
    IN  /\ Len(body) > 0
        /\ \A i \in 1..Len(body) : isHexDigit(body[i])

\* maskBytes, block style: the hex branch for a match of type EVM_PK and
\* for bytes that look like hex, the block character otherwise.
maskBytes(text, m) ==
    IF m.SecretType = "EVM_PK" \/ looksHex(Slice(text, m.Start, m.End))
    THEN hexRandomSameLength(text, m.Start, m.End)
    ELSE maskBlock(text, m.Start, m.End)

\* Redactor.replacement for the actions mask and warn.
replacement(text, m) ==
    IF m.Action = "mask" THEN maskBytes(text, m)
    ELSE CopyCells(text, m.Start, m.End)

RECURSIVE ApplyLoop(_, _, _)
\* The loop of Apply over the matches sorted by Start.
ApplyLoop(text, local, cursor) ==
    IF local = <<>> THEN CopyCells(text, cursor, Len(text))
    ELSE LET m == Head(local)
         IN  IF m.Start < cursor \/ m.Start < 0 \/ m.End > Len(text)
                  \/ m.End <= m.Start
             THEN ApplyLoop(text, Tail(local), cursor)
             ELSE CopyCells(text, cursor, m.Start)
                  \o replacement(text, m)
                  \o ApplyLoop(text, Tail(local), m.End)

\* Redactor.Apply
Apply(text, matches) ==
    LET n == Len(matches)
        sorted == SortPairs([i \in 1..n |-> <<matches[i].Start, matches[i]>>])
    IN  ApplyLoop(text, [i \in 1..n |-> sorted[i][2]], 0)

\* The bytes of a sequence of cells.
CellBytes(cells) == [i \in 1..Len(cells) |-> cells[i].b]

(***************************************************************************)
(* internal/cache: the bounded store of originals.  lru lists the records  *)
(* front first; the index byID always holds exactly the records of lru, so *)
(* the model looks a record up in lru by its ID.                           *)
(***************************************************************************)
DefaultMaxEntries == 64

\* cache.New
New(maxEntries, ttl) ==
    [lru |-> <<>>,
     maxEntries |-> IF maxEntries <= 0 THEN DefaultMaxEntries ELSE maxEntries,
     ttl |-> ttl,
     lastID |-> 0]

\* !rec.ExpiresAt.IsZero() && now.After(rec.ExpiresAt)
Expired(rec, now) == rec.ExpiresAt # ZeroTime /\ now > rec.ExpiresAt

evictExpiredLocked(c, now) ==
    [c EXCEPT !.lru = SelectSeq(@, LAMBDA rec : ~Expired(rec, now))]

\* An evictLocked that only drops the records that have expired.
evictLockedExpiredOnly(c, now) == evictExpiredLocked(c, now)

evictLocked(c, now) ==
    LET c1 == evictExpiredLocked(c, now)
    IN  IF Len(c1.lru) > c1.maxEntries
        THEN [c1 EXCEPT !.lru = SubSeq(@, 1, c1.maxEntries)]
        ELSE c1


\* Cache.Put
Put(c, record, now) ==
    IF c.ttl <= 0 \/ Len(record.Original) = 0 THEN c
    ELSE LET rec == [record EXCEPT !.CreatedAt = now,
                                   !.ExpiresAt = now + c.ttl]
             others == SelectSeq(c.lru, LAMBDA r : r.ID # record.ID)
         IN  evictLocked(
                 [c EXCEPT !.lastID = IF record.ID > @ THEN record.ID ELSE @,
                           !.lru = <<rec>> \o others],
                 now)

(***************************************************************************)
(* internal/redact: the label of a stored record.                          *)
(***************************************************************************)
\* bytes.LastIndexByte
LastIndexByte(text, b) ==
    LET hits == {i \in 0..(Len(text) - 1) : At(text, i) = b}
    IN  IF hits = {} THEN -1 ELSE CHOOSE i \in hits : \A j \in hits : j <= i

\* bytes.IndexByte
IndexByte(text, b) ==
    LET hits == {i \in 0..(Len(text) - 1) : At(text, i) = b}
    IN  IF hits = {} THEN -1 ELSE CHOOSE i \in hits : \A j \in hits : i <= j

\* [A-Za-z_]
IsLabelStart(b) ==
    \/ b >= 65 /\ b <= 90
    \/ b >= 97 /\ b <= 122
    \/ b = Underscore

\* [A-Za-z0-9_-]
IsLabelByte(b) == IsLabelStart(b) \/ (b >= 48 /\ b <= 57) \/ b = Hyphen

RECURSIVE SkipLabel(_, _)
\* The offset where the run of [A-Za-z0-9_-] bytes that starts at i ends.
SkipLabel(line, i) ==
    IF i < Len(line) /\ IsLabelByte(At(line, i))
    THEN SkipLabel(line, i + 1) ELSE i

\* labelRegex.FindSubmatch(line): the bounds of group 1.
labelRegex(line) ==
    LET n == Len(line)
        a == SkipSpace(line, 0)
        e == SkipLabel(line, a + 1)
        c == SkipSpace(line, e)
    IN  IF /\ a < n
           /\ IsLabelStart(At(line, a))
           /\ e - (a + 1) <= LabelTail
           /\ c < n
           /\ At(line, c) \in {Colon, EqualsSign}
        THEN [ok |-> TRUE, start |-> a, end |-> e]
        ELSE [ok |-> FALSE, start |-> 0, end |-> 0]

\* extractLabel: [label |-> the label, at |-> the offsets in text it was
\* taken from].
extractLabel(text, match) ==
    IF match.Start < 0 \/ match.Start > Len(text)
    THEN [label |-> <<>>, at |-> {}]
    ELSE LET li == LastIndexByte(Slice(text, 0, match.Start), Newline)
             lineStart == IF li = -1 THEN 0 ELSE li + 1
             le == IndexByte(Slice(text, match.Start, Len(text)), Newline)
             lineEnd == IF le = -1 THEN Len(text) ELSE le + match.Start
             line == Slice(text, lineStart, lineEnd)
             r == labelRegex(line)
         IN  IF ~r.ok THEN [label |-> <<>>, at |-> {}]
             ELSE [label |-> Slice(line, r.start, r.end),
                   at |-> Span(lineStart + r.start, lineStart + r.end)]

(***************************************************************************)
(* internal/ui: the status line, as the bytes of its text.                 *)
(***************************************************************************)
RECURSIVE Decimal(_)
\* %d of a number that is not negative.
Decimal(n) ==
    IF n < 10 THEN <<Digit0 + n>>
    ELSE Append(Decimal(n \div 10), Digit0 + (n % 10))

\* The bytes of a types.SecretType; "EVM_PK" is the one type a match of this
\* model has.
TypeBytes(secretType) == <<69, 86, 77, 95, 80, 75>>

\* ui.StatusLine
StatusLine(count, strict, includeID, secretType, id) ==
    LET prefix == IF strict
                  THEN <<115, 101, 99, 114, 101, 116, 116, 121, 40, 115, 116,
                         114, 105, 99, 116, 41, 58>>
                  ELSE <<115, 101, 99, 114, 101, 116, 116, 121, 58>>
        redacted == <<32, 114, 101, 100, 97, 99, 116, 101, 100, 32>>
    IN  IF count <= 0 THEN <<>>
        ELSE IF count > 1
        THEN prefix \o redacted \o Decimal(count)
             \o <<32, 115, 101, 99, 114, 101, 116, 115>>
        ELSE IF includeID /\ id > 0
        THEN prefix \o redacted \o TypeBytes(secretType) \o <<35>>
             \o Decimal(id)
        ELSE prefix \o redacted \o TypeBytes(secretType)

(***************************************************************************)
(* internal/redact: the stream.  Its operations act on a record            *)
(*   [s, out, cache, now, puts, rep, esc]:                                 *)
(* the Stream, the writes its out has received, the cache it was given,    *)
(* the time, the number of records handed to Cache.Put, and two histories  *)
(* the properties are stated on: the input positions inside matches the    *)
(* detector reported, and the ESCAPE segments the tokenizer returned.      *)
(* Input positions count the bytes handed to Write from 1.  s.bufPos holds *)
(* the position of every byte of s.buffer, s.consumed the number of input  *)
(* bytes the tokenizer has returned in segments.  A write to out is        *)
(* [kind, bytes, pos]; pos[i] is p when bytes[i] is a copy of the input    *)
(* byte at position p, -p when it replaces it, 0 when it is inserted.      *)
(* s.given holds, for every match handed to the redactor with the text     *)
(* that is written, the ID it carried and the input position it starts at. *)
(***************************************************************************)
DefaultWindow == 32768

\* redact.NewStream; hasCache tells whether secretCache is not nil.
NewStream(cfg, hasCache) ==
    [windowSize |-> IF cfg.RollingWindowBytes < 0 THEN DefaultWindow
                    ELSE cfg.RollingWindowBytes,
     hasCache |-> hasCache,
     cacheOn |-> IF cfg.Mode = "strict" /\ cfg.DisableCopyOriginal
                 THEN FALSE ELSE cfg.CopyWithoutRender,
     includeID |-> cfg.IncludeEventID,
     strictMode |-> cfg.Mode = "strict",
     statusEnabled |-> cfg.StatusLine,
     statusRateLimit |-> cfg.RateLimit,
     lastStatus |-> ZeroTime,
     altScreen |-> FALSE,
     tokenizer |-> NewTokenizer,
     buffer |-> <<>>,
     nextID |-> 0,
     bufPos |-> <<>>,
     consumed |-> 0,
     given |-> <<>>]

\* s.out.Write(bytes)
OutWrite(w, kind, bytes, pos) ==
    [w EXCEPT !.out = Append(@, [kind |-> kind, bytes |-> bytes, pos |-> pos])]

\* The positions of the bytes a sequence of cells over a text stands for.
CellPos(cells, tpos) ==
    [i \in 1..Len(cells) |->
        IF cells[i].raw THEN tpos[cells[i].src] ELSE 0 - tpos[cells[i].src]]

\* The detector has reported matches on a text whose bytes are at tpos.
Report(w, tpos, matches) ==
    [w EXCEPT !.rep = @ \cup
        UNION {{tpos[i + 1] : i \in Span(matches[k].Start, matches[k].End)} :
               k \in {j \in 1..Len(matches) :
                        matches[j].Action \in {"mask", "placeholder"}}}]

\* The matches ms, found on a text whose bytes are at tpos, are handed to
\* the redactor with the text that is written.
Emitted(w, tpos, ms) ==
    [w EXCEPT !.s.given = @ \o [i \in 1..Len(ms) |->
                                  [ID |-> ms[i].ID,
                                   at |-> tpos[ms[i].Start + 1]]]]

AltEnter ==
    {<<91, 63, 49, 48, 52, 57, 104>>, <<91, 63, 52, 55, 104>>,
     <<91, 63, 49, 48, 52, 55, 104>>}

AltLeave ==
    {<<91, 63, 49, 48, 52, 57, 108>>, <<91, 63, 52, 55, 108>>,
     <<91, 63, 49, 48, 52, 55, 108>>}

\* An updateAltScreen that never leaves the alternate screen.
updateAltScreenSticky(s, esc) ==
    IF \E pat \in AltEnter : Contains(esc, pat)
    THEN [s EXCEPT !.altScreen = TRUE]
    ELSE s

updateAltScreen(s, esc) ==
    IF \E pat \in AltEnter : Contains(esc, pat)
    THEN [s EXCEPT !.altScreen = TRUE]
    ELSE IF \E pat \in AltLeave : Contains(esc, pat)
         THEN [s EXCEPT !.altScreen = FALSE]
         ELSE s

RECURSIVE AssignLoop(_, _)
\* The loop of assignIDs: a match without an ID takes the next one.
AssignLoop(ms, nextID) ==
    IF ms = <<>> THEN <<>>
    ELSE IF Head(ms).ID = 0
         THEN <<[Head(ms) EXCEPT !.ID = nextID + 1]>>
              \o AssignLoop(Tail(ms), nextID + 1)
         ELSE <<Head(ms)>> \o AssignLoop(Tail(ms), nextID)

\* Stream.assignIDs: [s |-> the stream afterwards, ms |-> the matches].
assignIDs(s, matches) ==
    IF matches = <<>> \/ (~s.includeID /\ ~s.hasCache)
    THEN [s |-> s, ms |-> matches]
    ELSE [s |-> [s EXCEPT !.nextID =
                    @ + Len(SelectSeq(matches, LAMBDA m : m.ID = 0))],
          ms |-> AssignLoop(matches, s.nextID)]

\* The record storeMatches builds for a match; labelAt and matchAt are the
\* offsets in text its Label and its Original were taken from.
RecordOf(text, m) ==
    LET l == extractLabel(text, m)
    IN  [ID |-> m.ID, Type |-> m.SecretType, RuleName |-> m.RuleName,
         Label |-> l.label, Original |-> Slice(text, m.Start, m.End),
         CreatedAt |-> ZeroTime, ExpiresAt |-> ZeroTime,
         labelAt |-> l.at, matchAt |-> Span(m.Start, m.End)]

RECURSIVE StoreLoop(_, _, _)
\* The loop of storeMatches.
StoreLoop(w, text, ms) ==
    IF ms = <<>> THEN w
    ELSE LET m == Head(ms)
         IN  IF m.Start < 0 \/ m.End > Len(text) \/ m.End <= m.Start
             THEN StoreLoop(w, text, Tail(ms))
             ELSE StoreLoop(
                      [w EXCEPT !.cache = Put(@, RecordOf(text, m), w.now),
                                !.puts = @ + 1],
                      text, Tail(ms))

\* Stream.storeMatches
storeMatches(w, text, matches) ==
    IF ~w.s.hasCache \/ ~w.s.cacheOn \/ matches = <<>> THEN w
    ELSE StoreLoop(w, text, matches)

\* A maybeEmitStatus that does not look at the last byte written.
maybeEmitStatusAnywhere(w, matches, redacted) ==
    IF ~w.s.statusEnabled \/ matches = <<>> \/ w.s.altScreen THEN w
    ELSE LET first == matches[1]
             line == StatusLine(Len(matches), w.s.strictMode, w.s.includeID,
                                first.SecretType, first.ID)
         IN  [OutWrite(w, "status", Append(line, Newline),
                       [i \in 1..(Len(line) + 1) |-> 0])
              EXCEPT !.s.lastStatus = w.now]

\* Stream.maybeEmitStatus
maybeEmitStatus(w, matches, redacted) ==
    IF ~w.s.statusEnabled \/ matches = <<>> \/ w.s.altScreen THEN w
    ELSE IF /\ w.s.statusRateLimit > 0
            /\ w.s.lastStatus # ZeroTime
            /\ w.now - w.s.lastStatus < w.s.statusRateLimit
    THEN w
    ELSE IF redacted = <<>> \/ redacted[Len(redacted)] # Newline THEN w
    ELSE LET first == matches[1]
             line == StatusLine(Len(matches), w.s.strictMode, w.s.includeID,
                                first.SecretType, first.ID)
         IN  IF line = <<>> THEN w
             ELSE [OutWrite(w, "status", Append(line, Newline),
                            [i \in 1..(Len(line) + 1) |-> 0])
                   EXCEPT !.s.lastStatus = w.now]

\* The length the first byte of a UTF-8 encoding announces; 1 for a byte
\* that cannot begin one.
RuneSize(b) ==
    IF b >= 194 /\ b <= 223 THEN 2
    ELSE IF b >= 224 /\ b <= 239 THEN 3
    ELSE IF b >= 240 /\ b <= 244 THEN 4
    ELSE 1

\* The values the byte after the first byte b may take.
AcceptRange(b) ==
    CASE b = 224 -> 160..191
      [] b = 237 -> 128..159
      [] b = 240 -> 144..191
      [] b = 244 -> 128..143
      [] OTHER -> 128..191

\* utf8.FullRune(p) for a p that is not empty: p begins with a whole
\* encoding, or with bytes that can never become one.
FullRune(p) ==
    \/ Len(p) >= RuneSize(p[1])
    \/ Len(p) > 1 /\ p[2] \notin AcceptRange(p[1])
    \/ Len(p) > 2 /\ p[3] \notin 128..191

\* len(head) for head, _ := splitUTF8Tail(buf)
splitUTF8Tail(buf) ==
    LET start == LastIndexByte([i \in 1..Len(buf) |->
                                   IF RuneStart(buf[i]) THEN 1 ELSE 0], 1)
    IN  IF Len(buf) = 0 \/ start < 0 THEN 0
        ELSE IF FullRune(Slice(buf, start, Len(buf))) THEN Len(buf)
        ELSE start

utf8SafePrefixLen(buf, max) ==
    IF max <= 0 THEN 0
    ELSE splitUTF8Tail(Slice(buf, 0, IF max > Len(buf) THEN Len(buf) ELSE max))

RECURSIVE ClampPass(_, _)
\* One pass of the inner loop of safeEmitLen over the matches.
ClampPass(emitLen, matches) ==
    IF matches = <<>> THEN emitLen
    ELSE LET m == Head(matches)
         IN  ClampPass(IF m.Start < emitLen /\ m.End > emitLen
                       THEN m.Start ELSE emitLen,
                       Tail(matches))

RECURSIVE safeEmitLen(_, _)
safeEmitLen(emitLen, matches) ==
    IF emitLen <= 0 THEN 0
    ELSE LET pass == ClampPass(emitLen, matches)
         IN  IF pass = emitLen THEN emitLen ELSE safeEmitLen(pass, matches)


\* A filter that keeps the matches that are held back as well.
filterMatchesKeepingAll(matches, emitLen) == matches

filterMatches(matches, emitLen) ==
    SelectSeq(matches, LAMBDA m : m.Start >= 0 /\ m.End <= emitLen)

\* Stream.processText; tpos holds the input positions of the bytes of text.
processText(w, text, tpos) ==
    LET buffer == w.s.buffer \o text
        bpos == w.s.bufPos \o tpos
        w0 == [w EXCEPT !.s.buffer = buffer, !.s.bufPos = bpos]
        excess == IF Len(buffer) > w.s.windowSize
                  THEN Len(buffer) - w.s.windowSize ELSE 0
        matches == Find(buffer)
        emitLen == utf8SafePrefixLen(buffer, safeEmitLen(excess, matches))
        emitBuf == Slice(buffer, 0, emitLen)
        a == assignIDs(w0.s, filterMatches(matches, emitLen))
        w1 == storeMatches(
                  Emitted([Report(w0, bpos, matches) EXCEPT !.s = a.s],
                          bpos, a.ms),
                  emitBuf, a.ms)
        redacted == Apply(emitBuf, a.ms)
        w2 == OutWrite(w1, "text", CellBytes(redacted),
                       CellPos(redacted, bpos))
        w3 == maybeEmitStatus(w2, a.ms, CellBytes(redacted))
    IN  IF excess = 0 THEN w0
        ELSE IF emitLen = 0 THEN Report(w0, bpos, matches)
        ELSE [w3 EXCEPT !.s.buffer = Slice(buffer, emitLen, Len(buffer)),
                        !.s.bufPos = Slice(bpos, emitLen, Len(bpos))]

\* The bytes, and the positions, of the TEXT segments: plain.
PlainBytes(segs) == ConcatBytes(OfKind(segs, SegmentText))

RECURSIVE ConcatPos(_)
ConcatPos(segs) ==
    IF segs = <<>> THEN <<>> ELSE Head(segs).pos \o ConcatPos(Tail(segs))

\* infos of writeInteractiveSegments: the bounds in plain of each TEXT
\* segment, in order.
SegmentInfos(segs) ==
    LET texts == OfKind(segs, SegmentText)
    IN  [k \in 1..Len(texts) |->
            [start |-> Len(ConcatBytes(SubSeq(texts, 1, k - 1))),
             end |-> Len(ConcatBytes(SubSeq(texts, 1, k)))]]

\* out[i] of splitMatchesBySegment for one info: the parts of the matches
\* that lie in the segment, with offsets in the segment.
splitMatchesBySegment(matches, info) ==
    LET hit == SelectSeq(matches, LAMBDA m :
                   /\ ~(m.End <= info.start \/ m.Start >= info.end)
                   /\ (IF m.End < info.end THEN m.End ELSE info.end)
                        > (IF m.Start > info.start THEN m.Start
                           ELSE info.start))
    IN  [i \in 1..Len(hit) |->
            [Start |-> (IF hit[i].Start > info.start THEN hit[i].Start
                        ELSE info.start) - info.start,
             End |-> (IF hit[i].End < info.end THEN hit[i].End
                      ELSE info.end) - info.start,
             Action |-> hit[i].Action,
             SecretType |-> hit[i].SecretType,
             RuleName |-> hit[i].RuleName,
             ID |-> hit[i].ID]]

RECURSIVE InteractiveLoop(_, _, _, _, _)
\* The second loop of writeInteractiveSegments; infoIdx counts the TEXT
\* segments already written.
InteractiveLoop(w, segs, infos, matches, infoIdx) ==
    IF segs = <<>> THEN w
    ELSE LET seg == Head(segs)
         IN  IF seg.Kind = SegmentEscape
             THEN InteractiveLoop(
                      OutWrite([w EXCEPT !.s = updateAltScreen(@, seg.Bytes)],
                               "esc", seg.Bytes, seg.pos),
                      Tail(segs), infos, matches, infoIdx)
             ELSE LET segMatches ==
                          IF infoIdx < Len(infos)
                          THEN splitMatchesBySegment(matches,
                                                     infos[infoIdx + 1])
                          ELSE <<>>
                      chunk == IF segMatches = <<>>
                               THEN CopyCells(seg.Bytes, 0, Len(seg.Bytes))
                               ELSE Apply(seg.Bytes, segMatches)
                      w1 == OutWrite(w, "text", CellBytes(chunk),
                                     CellPos(chunk, seg.pos))
                  IN  InteractiveLoop(
                          IF chunk = <<>> THEN w
                          ELSE maybeEmitStatus(w1, segMatches,
                                               CellBytes(chunk)),
                          Tail(segs), infos, matches,
                          IF infoIdx < Len(infos) THEN infoIdx + 1
                          ELSE infoIdx)

\* Stream.writeInteractiveSegments
writeInteractiveSegments(w, segs) ==
    LET plain == PlainBytes(segs)
        ppos == ConcatPos(OfKind(segs, SegmentText))
        found == Find(plain)
        a == assignIDs(w.s, found)
        w1 == storeMatches(
                  Emitted([Report(w, ppos, found) EXCEPT !.s = a.s],
                          ppos, a.ms),
                  plain, a.ms)
    IN  IF Len(plain) > 0
        THEN InteractiveLoop(w1, segs, SegmentInfos(segs), a.ms, 0)
        ELSE InteractiveLoop(w, segs, SegmentInfos(segs), <<>>, 0)

RECURSIVE AttachPos(_, _)
\* The segments with the input positions of their bytes, the first byte of
\* the first segment being at position from + 1.
AttachPos(segs, from) ==
    IF segs = <<>> THEN <<>>
    ELSE LET g == Head(segs)
         IN  <<[Kind |-> g.Kind, Bytes |-> g.Bytes,
                pos |-> [i \in 1..Len(g.Bytes) |-> from + i]]>>
             \o AttachPos(Tail(segs), from + Len(g.Bytes))

\* What the tokenizer has returned: recorded in the histories.
Tokenized(w, t, segs) ==
    LET escapes == OfKind(segs, SegmentEscape)
    IN  [w EXCEPT !.s.tokenizer = t,
                  !.s.consumed = @ + Len(ConcatBytes(segs)),
                  !.esc = @ \o [i \in 1..Len(escapes) |->
                                   [bytes |-> escapes[i].Bytes,
                                    pos |-> escapes[i].pos]]]

RECURSIVE WriteLoop(_, _)
\* The loop of Write in the windowed regime.
WriteLoop(w, segs) ==
    IF segs = <<>> THEN w
    ELSE LET seg == Head(segs)
         IN  IF seg.Kind = SegmentEscape
             THEN WriteLoop(
                      OutWrite([w EXCEPT !.s = updateAltScreen(@, seg.Bytes)],
                               "esc", seg.Bytes, seg.pos),
                      Tail(segs))
             ELSE WriteLoop(processText(w, seg.Bytes, seg.pos), Tail(segs))

\* Stream.Write
Write(w, p) ==
    LET r == Push(w.s.tokenizer, p)
        segs == AttachPos(r.segs, w.s.consumed)
        w1 == Tokenized(w, r.t, segs)
    IN  IF w1.s.windowSize = 0 THEN writeInteractiveSegments(w1, segs)
        ELSE WriteLoop(w1, segs)

\* A Flush that does not write what the tokenizer still held.
FlushLoopDropping(w, segs) == w

RECURSIVE FlushLoop(_, _)
\* The first loop of Stream.Flush: what the tokenizer still held is written.
FlushLoop(w, segs) ==
    IF segs = <<>> THEN w
    ELSE FlushLoop(OutWrite(w, "esc", Head(segs).Bytes, Head(segs).pos),
                   Tail(segs))

\* Stream.Flush
StreamFlush(w) ==
    LET r == Flush(w.s.tokenizer)
        segs == AttachPos(r.segs, w.s.consumed)
        w1 == FlushLoop(Tokenized(w, r.t, segs), segs)
        buffer == w1.s.buffer
        found == Find(buffer)
        a == assignIDs(w1.s, found)
        w2 == storeMatches(
                  Emitted([Report(w1, w1.s.bufPos, found) EXCEPT !.s = a.s],
                          w1.s.bufPos, a.ms),
                  buffer, a.ms)
        redacted == Apply(buffer, a.ms)
        w3 == OutWrite(w2, "text", CellBytes(redacted),
                       CellPos(redacted, w1.s.bufPos))
        w4 == maybeEmitStatus(w3, a.ms, CellBytes(redacted))
    IN  IF Len(buffer) = 0 THEN w1
        ELSE [w4 EXCEPT !.s.buffer = <<>>, !.s.bufPos = <<>>]

\* Stream.Close
Close(w) == StreamFlush(w)

\* ESC followed by = is a whole escape sequence of two bytes.
StreamBytes == {LetterK, EqualsSign, LetterS, Newline, ESC}

\* Values of rolling_window_bytes: the unbuffered regime and two windows.
StreamWindows == {0, 1, 2}

\* A cache.Cache that holds nothing and stores nothing.
NoCache == [lru |-> <<>>, maxEntries |-> 0, ttl |-> 0, lastID |-> 0]

\* The configuration of a stream: the fields NewStream reads.
StreamCfg(window, status) ==
    [Mode |-> "demo", DisableCopyOriginal |-> FALSE,
     CopyWithoutRender |-> FALSE, RollingWindowBytes |-> window,
     IncludeEventID |-> FALSE, StatusLine |-> status, RateLimit |-> 0]

\* The stream and what surrounds it, as the operations take it.
World ==
    [s |-> stream, out |-> sink, cache |-> cache, now |-> clock,
     puts |-> puts, rep |-> reported, esc |-> escSeen]

\* The stream and what surrounds it become w.
Commit(w) ==
    /\ stream' = w.s
    /\ sink' = w.out
    /\ cache' = w.cache
    /\ puts' = w.puts
    /\ reported' = w.rep
    /\ escSeen' = w.esc

\* No stream is running: the stream's variables keep these values.
StreamIdle ==
    /\ stream = NewStream(StreamCfg(0, FALSE), FALSE)
    /\ sink = <<>>
    /\ cache = NoCache
    /\ clock = 1
    /\ puts = 0
    /\ input = <<>>
    /\ pending = <<>>
    /\ closed = FALSE
    /\ escSeen = <<>>
    /\ reported = {}

(***************************************************************************)
(* internal/allowlist: commands that bypass redaction.  Names, paths and   *)
(* patterns are byte strings.  The patterns of the model are well formed   *)
(* (the configuration is validated before use), so path.Match returns no   *)
(* error.                                                                  *)
(***************************************************************************)
RECURSIVE TrimLeft(_)
TrimLeft(str) ==
    IF str # <<>> /\ IsSpace(Head(str)) THEN TrimLeft(Tail(str)) ELSE str

RECURSIVE TrimRight(_)
TrimRight(str) ==
    IF str # <<>> /\ IsSpace(str[Len(str)])
    THEN TrimRight(SubSeq(str, 1, Len(str) - 1)) ELSE str

\* strings.TrimSpace
TrimSpace(str) == TrimRight(TrimLeft(str))

RECURSIVE StripSlashes(_)
\* The path without its trailing slashes.
StripSlashes(p) ==
    IF p # <<>> /\ p[Len(p)] = Slash
    THEN StripSlashes(SubSeq(p, 1, Len(p) - 1)) ELSE p

\* filepath.Base
Base(p) ==
    LET q == StripSlashes(p)
        cut == LastIndexByte(q, Slash)
    IN  IF p = <<>> THEN <<Dot>>
        ELSE IF q = <<>> THEN <<Slash>>
        ELSE Slice(q, cut + 1, Len(q))

RECURSIVE pathMatch(_, _)
\* path.Match for patterns made of literal bytes, ? and *: neither ? nor *
\* matches a slash.
pathMatch(pattern, name) ==
    IF pattern = <<>> THEN name = <<>>
    ELSE IF Head(pattern) = Star
    THEN \/ pathMatch(Tail(pattern), name)
         \/ name # <<>> /\ Head(name) # Slash /\ pathMatch(pattern, Tail(name))
    ELSE /\ name # <<>>
         /\ \/ Head(pattern) = Head(name)
            \/ Head(pattern) = Question /\ Head(name) # Slash
         /\ pathMatch(Tail(pattern), Tail(name))

commandBase(argv0, resolvedPath) ==
    IF resolvedPath # <<>> THEN Base(resolvedPath)
    ELSE IF argv0 = <<>> THEN <<>>
    ELSE Base(argv0)

commandFull(argv0, resolvedPath) ==
    IF resolvedPath # <<>> THEN resolvedPath ELSE argv0

RECURSIVE MatchLoop(_, _, _)
\* The loop of Match over the entries.
MatchLoop(entries, base, full) ==
    IF entries = <<>> THEN FALSE
    ELSE LET pattern == TrimSpace(Head(entries))
             target == IF Contains(pattern, <<Slash>>) THEN full ELSE base
         IN  IF pattern = <<>> \/ target = <<>>
             THEN MatchLoop(Tail(entries), base, full)
             ELSE pathMatch(pattern, target)
                  \/ MatchLoop(Tail(entries), base, full)

\* allowlist.Match
Match(entries, argv0, resolvedPath) ==
    MatchLoop(entries,
              commandBase(TrimSpace(argv0), TrimSpace(resolvedPath)),
              commandFull(TrimSpace(argv0), TrimSpace(resolvedPath)))

(***************************************************************************)
(* cmd/secretty: the runner.  A configuration is a record of the fields    *)
(* the runner and NewStream read; a command is [argv0, lookPath], lookPath *)
(* being what exec.LookPath finds for argv0, empty when it finds nothing.  *)
(***************************************************************************)
MaxEntriesForRun == 64

\* An ensureCache that creates the cache whatever the mode.
ensureCacheAnyMode(existing, cfg) ==
    [has |-> TRUE, c |-> New(MaxEntriesForRun, cfg.TTLSeconds)]

\* ensureCache: [has |-> the result is not nil, c |-> the cache].
ensureCache(existing, cfg) ==
    IF ~cfg.CopyWithoutRender THEN [has |-> FALSE, c |-> NoCache]
    ELSE IF cfg.Mode = "strict" /\ cfg.DisableCopyOriginal
    THEN [has |-> FALSE, c |-> NoCache]
    ELSE IF ~existing.has
    THEN [has |-> TRUE, c |-> New(MaxEntriesForRun, cfg.TTLSeconds)]
    ELSE [has |-> TRUE, c |-> [existing.c EXCEPT !.ttl = cfg.TTLSeconds]]

\* resolveCommandPath
resolveCommandPath(argv0, lookPath) ==
    IF TrimSpace(argv0) = <<>> THEN <<>>
    ELSE IF lookPath = <<>> THEN argv0
    ELSE lookPath

\* A runner that never bypasses redaction.
neverBypassRedaction(cfg, command) == FALSE

\* shouldBypassRedaction
shouldBypassRedaction(cfg, command) ==
    IF ~cfg.AllowlistEnabled \/ Len(cfg.AllowlistCommands) = 0 THEN FALSE
    ELSE Match(cfg.AllowlistCommands, command.argv0,
               resolveCommandPath(command.argv0, command.lookPath))

\* startIPCServer: whether a server listens afterwards; socketOK tells
\* whether a socket path was found and the server could listen on it.
startIPCServer(cfg, hasCache, socketOK) ==
    IF ~hasCache THEN FALSE
    ELSE IF ~cfg.CopyWithoutRender THEN FALSE
    ELSE IF cfg.Mode = "strict" /\ cfg.DisableCopyOriginal THEN FALSE
    ELSE socketOK

\* What runWithPTY sets up before it runs the command.
runWithPTY(cfg, command, hasCache, isInteractive, socketOK) ==
    LET bypass == shouldBypassRedaction(cfg, command)
        cacheForRun == hasCache /\ ~bypass
        listening == cacheForRun /\ startIPCServer(cfg, cacheForRun, socketOK)
        cfgForRun == IF isInteractive /\ ~bypass
                     THEN [cfg EXCEPT !.RollingWindowBytes = 0] ELSE cfg
    IN  [bypass |-> bypass,
         listening |-> listening,
         env |-> IF listening THEN {"SECRETTY_SOCKET"} ELSE {},
         output |-> IF bypass THEN "stdout" ELSE "stream",
         stream |-> NewStream(cfgForRun, cacheForRun)]

(***************************************************************************)
(* internal/cache, read side, and internal/ipc: one request handled.       *)
(***************************************************************************)
\* Cache.GetLast: [c |-> the cache afterwards, ok, rec].
GetLast(c, now) ==
    LET c1 == evictExpiredLocked(c, now)
    IN  IF c1.lru = <<>> THEN [c |-> c1, ok |-> FALSE, rec |-> <<>>]
        ELSE [c |-> c1, ok |-> TRUE, rec |-> Head(c1.lru)]

\* A Get that leaves the record it finds where it is in the list.
GetKeepingOrder(c, id, now) ==
    LET hit == SelectSeq(c.lru, LAMBDA r : r.ID = id)
        others == SelectSeq(c.lru, LAMBDA r : r.ID # id)
    IN  IF hit = <<>> THEN [c |-> c, ok |-> FALSE, rec |-> <<>>]
        ELSE IF Expired(hit[1], now)
        THEN [c |-> [c EXCEPT !.lru = others], ok |-> FALSE, rec |-> <<>>]
        ELSE [c |-> c, ok |-> TRUE, rec |-> hit[1]]

\* Cache.Get
Get(c, id, now) ==
    LET hit == SelectSeq(c.lru, LAMBDA r : r.ID = id)
        others == SelectSeq(c.lru, LAMBDA r : r.ID # id)
    IN  IF hit = <<>> THEN [c |-> c, ok |-> FALSE, rec |-> <<>>]
        ELSE IF Expired(hit[1], now)
        THEN [c |-> [c EXCEPT !.lru = others], ok |-> FALSE, rec |-> <<>>]
        ELSE [c |-> [c EXCEPT !.lru = <<hit[1]>> \o others],
              ok |-> TRUE, rec |-> hit[1]]

\* Cache.List: the records that have not expired, most recent first.
List(c, now) == SelectSeq(c.lru, LAMBDA r : ~Expired(r, now))

\* A response; about lists, for every record the response describes, the
\* offsets its label and its original were taken from.
Response(ok, error, rec, records, about) ==
    [OK |-> ok, Error |-> error, ID |-> rec.ID, RuleName |-> rec.RuleName,
     Type |-> rec.Type, Label |-> rec.Label, Records |-> records,
     about |-> about]

NoRecord == [ID |-> 0, RuleName |-> "", Type |-> "", Label |-> <<>>]

Failure(error) == Response(FALSE, error, NoRecord, <<>>, <<>>)

About(rec) == [labelAt |-> rec.labelAt, matchAt |-> rec.matchAt]

\* A server that answers ok:true whether the copy callback succeeded or not.
CopyOutIgnoringError(r, missing, copyErr) ==
    IF ~r.ok THEN [c |-> r.c, resp |-> Failure(missing), copied |-> <<>>]
    ELSE [c |-> r.c,
          resp |-> Response(TRUE, "", r.rec, <<>>, <<About(r.rec)>>),
          copied |-> r.rec.Original]

\* The part of handle that follows a cache lookup r in copy-last and
\* copy-id: [c, resp, copied]; copyErr is the error of the copy callback,
\* "" when it succeeds.
CopyOut(r, missing, copyErr) ==
    IF ~r.ok THEN [c |-> r.c, resp |-> Failure(missing), copied |-> <<>>]
    ELSE IF copyErr # ""
    THEN [c |-> r.c, resp |-> Failure(copyErr), copied |-> r.rec.Original]
    ELSE [c |-> r.c,
          resp |-> Response(TRUE, "", r.rec, <<>>, <<About(r.rec)>>),
          copied |-> r.rec.Original]

\* Server.handle for a request [valid, Op, ID]; valid tells whether the
\* bytes received decode as JSON.
handle(c, req, now, copyErr) ==
    IF ~req.valid
    THEN [c |-> c, resp |-> Failure("invalid request"), copied |-> <<>>]
    ELSE CASE req.Op = "copy-last" ->
                CopyOut(GetLast(c, now), "no secrets cached", copyErr)
           [] req.Op = "copy-id" ->
                IF req.ID = 0
                THEN [c |-> c, resp |-> Failure("missing id"),
                      copied |-> <<>>]
                ELSE CopyOut(Get(c, req.ID, now), "secret not found", copyErr)
           [] req.Op = "list" ->
                LET records == List(c, now)
                IN  [c |-> c,
                     resp |-> Response(TRUE, "", NoRecord,
                         [i \in 1..Len(records) |->
                             [ID |-> records[i].ID,
                              RuleName |-> records[i].RuleName,
                              Type |-> records[i].Type,
                              Label |-> records[i].Label,
                              CreatedAt |-> records[i].CreatedAt,
                              ExpiresAt |-> records[i].ExpiresAt]],
                         [i \in 1..Len(records) |-> About(records[i])]),
                     copied |-> <<>>]
           [] OTHER ->
                [c |-> c, resp |-> Failure("unknown operation"),
                 copied |-> <<>>]

(***************************************************************************)
(* SpecSession: one run of the wrapper.  The configuration is loaded and   *)
(* the cache ensured, runWithPTY sets the session up, the output mover     *)
(* copies chunks of child output to the session's output while clients     *)
(* send requests to the IPC server and time passes, and the session ends   *)
(* when the child has exited.                                              *)
(***************************************************************************)
\* No pattern; the pattern v; the patterns s and /b/*.
Allowlists ==
    {<<>>, <<<<LetterV>>>>,
     <<<<LetterS>>, <<Slash, LetterB, Slash, Star>>>>}

\* v, found at /b/v, and g, found nowhere.
Commands ==
    {[argv0 |-> <<LetterV>>, lookPath |-> <<Slash, LetterB, Slash, LetterV>>],
     [argv0 |-> <<LetterG>>, lookPath |-> <<>>]}

SessCfg(mode, disableCopy, copy, allow, commands) ==
    [Mode |-> mode, DisableCopyOriginal |-> disableCopy,
     CopyWithoutRender |-> copy, TTLSeconds |-> CacheTTL,
     RollingWindowBytes |-> SessWindow, IncludeEventID |-> FALSE,
     StatusLine |-> FALSE, RateLimit |-> 0,
     AllowlistEnabled |-> allow, AllowlistCommands |-> commands]

\* Child output: a line with a secret, a secret on a line of its own that
\* has = in it, and a line with no secret.
SessChunks ==
    {<<LetterK, EqualsSign, LetterS>>,
     <<LetterK, EqualsSign, Newline, LetterS, EqualsSign>>,
     <<LetterS, Newline>>}

\* The requests a client can send: bytes that are not JSON, the operations
\* that take no id, and copy-id with an id.
Requests ==
    {[valid |-> FALSE, Op |-> "", ID |-> 0]}
    \cup {[valid |-> TRUE, Op |-> op, ID |-> 0] :
             op \in {"copy-last", "list", "bogus"}}
    \cup {[valid |-> TRUE, Op |-> "copy-id", ID |-> id] :
             id \in 0..(MaxSessWrites + 1)}

\* What the copy callback returns: nil, or the error of a clipboard command.
CopyErrors == {"", "pbcopy start: executable file not found"}

NoResponse == Failure("")

\* No session is running: the session's variables keep these values.
SessIdle ==
    /\ config = SessCfg("demo", FALSE, FALSE, FALSE, <<>>)
    /\ cmd = [argv0 |-> <<>>, lookPath |-> <<>>]
    /\ interactive = FALSE
    /\ pc = "idle"
    /\ stateCache = FALSE
    /\ output = "none"
    /\ ipc = FALSE
    /\ envAdded = {}
    /\ resp = NoResponse
    /\ copied = <<>>
    /\ writes = 0

(***************************************************************************)
(* internal/ptywrap: RunCommand, its output mover and the child.  A wait   *)
(* status is the integer the kernel hands to wait4: the exit code in bits  *)
(* 8 to 15 for a child that exited, the signal number in bits 0 to 6 and   *)
(* the core flag in bit 7 for a child that a signal killed.                *)
(***************************************************************************)
\* The chunks a child writes in one run.
MaxRunChunks == 2

SignalMask == 127
CoreFlag == 128
ExitShift == 256
ExitMask == 255
SignalBase == 128
FailureCode == 1
ErrChCap == 1

\* How a child ends: exit(n), or death by signal n, with a core dump or not.
ChildEnds ==
    {[kind |-> "exit", n |-> n, core |-> FALSE] : n \in {0, 7, 255}}
    \cup {[kind |-> "signal", n |-> n, core |-> c] :
             n \in {2, 9}, c \in BOOLEAN}

NoEnd == [kind |-> "none", n |-> 0, core |-> FALSE]

\* The wait status of a child that ended so.
WaitStatusOf(how) ==
    IF how.kind = "exit" THEN (how.n % (ExitMask + 1)) * ExitShift
    ELSE how.n + (IF how.core THEN CoreFlag ELSE 0)

\* syscall.WaitStatus: Exited, Signaled, Signal, ExitStatus.
Exited(status) == status % (SignalMask + 1) = 0

Signaled(status) ==
    /\ status % (SignalMask + 1) # SignalMask
    /\ status % (SignalMask + 1) # 0

Signal(status) ==
    IF Signaled(status) THEN status % (SignalMask + 1) ELSE -1

ExitStatus(status) ==
    IF Exited(status) THEN (status \div ExitShift) % (ExitMask + 1) ELSE -1

\* cmd.Wait(): nil for a child that exited with 0, an *exec.ExitError that
\* holds the wait status otherwise.
Wait(status) ==
    IF Exited(status) /\ ExitStatus(status) = 0
    THEN [isNil |-> TRUE, isExitError |-> FALSE, status |-> status]
    ELSE [isNil |-> FALSE, isExitError |-> TRUE, status |-> status]

\* An exitCode that does not look at the signal.
exitCodeOfStatusOnly(err) ==
    IF err.isExitError THEN ExitStatus(err.status) ELSE FailureCode

\* exitCode
exitCode(err) ==
    IF err.isExitError
    THEN IF Signaled(err.status) THEN SignalBase + Signal(err.status)
         ELSE ExitStatus(err.status)
    ELSE FailureCode

\* The end of RunCommand: what it returns for waitErr.
RunReturn(waitErr) ==
    IF waitErr.isNil THEN [code |-> 0, err |-> FALSE]
    ELSE [code |-> exitCode(waitErr), err |-> FALSE]

\* What RunCommand returns when maybeMakeRaw or startWithPTY fails.
RunFailed == [code |-> FailureCode, err |-> TRUE]

NoResult == [code |-> -1, err |-> FALSE]

\* The steps of RunCommand that can fail: term.MakeRaw in maybeMakeRaw,
\* and pty.Open, setTermios, pty.Setsize and cmd.Start in startWithPTY.
RunFailures ==
    {"none", "makeRaw", "openPTY", "setTermios", "setSize", "start"}

\* No RunCommand is running: its variables keep these values.
RunIdle ==
    /\ runPc = "idle"
    /\ moverPc = "none"
    /\ ctxDone = FALSE
    /\ errCh = <<>>
    /\ ptmxClosed = FALSE
    /\ outClosed = FALSE
    /\ child = [state |-> "none", how |-> NoEnd, status |-> 0]
    /\ ptyData = 0
    /\ moved = 0
    /\ runFail = "none"
    /\ runResult = NoResult

(***************************************************************************)
(* internal/cache with clients of its own: the operations of Cache called  *)
(* in any order on one cache while time passes.                            *)
(***************************************************************************)
\* The calls of Put, and the latest value of the clock, in one run.
MaxIDLen == 8
MaxCands == 3
MaxSpanUnits == 2
MaxUTF8Len == 4
MaxSignals == 3
MaxClampLen == 5
MaxLockOps == 2
MaxAltLen == 17
MaxCachePuts == 2
MaxCacheClock == 3
\* The IDs a client stores records under.
CacheIDs == {1, 2}

\* Values of maxEntries and of ttl that clients pass: none, and small ones
\* that make eviction and expiry happen.
CacheSizes == {0, 1, 2}
CacheTTLs == {0, 1, 2}

\* A cache.SecretRecord as a client hands it to Put.
CacheRecord(id, original) ==
    [ID |-> id, Type |-> "EVM_PK", RuleName |-> "env_private_key",
     Label |-> <<>>, Original |-> original,
     CreatedAt |-> ZeroTime, ExpiresAt |-> ZeroTime,
     labelAt |-> {}, matchAt |-> {}]

\* Cache.SetMaxEntries
SetMaxEntries(c, maxEntries, now) ==
    evictLocked(
        [c EXCEPT !.maxEntries = IF maxEntries <= 0 THEN DefaultMaxEntries
                                 ELSE maxEntries],
        now)

\* Cache.SetTTL
SetTTL(c, ttl) == [c EXCEPT !.ttl = ttl]

\* No client of a cache of its own is running.
CacheIdle == putLog = <<>> /\ recency = <<>>

\* No engine is at work outside a stream.
FindIdle ==
    /\ findCfg = <<>>
    /\ findText = <<>>
    /\ findCands = <<>>
    /\ findOut = <<>>
    /\ findPc = "idle"

\* No redactor is at work outside a stream.
MaskIdle ==
    /\ maskCfg = <<>>
    /\ maskIn = <<>>
    /\ maskOut = <<>>
    /\ maskPc = "idle"

\* The goroutines that use a cache: the output mover, through the stream,
\* and a connection handler of the IPC server.
Threads == {"writer", "ipc"}

\* No goroutine is in a call of the cache and the lock is free.
LockIdle ==
    /\ mu = "none"
    /\ thr = [t \in Threads |-> [pc |-> "idle", op |-> "none", arg |-> 0, n |-> 0]]

\* copyInput has not been started: nothing is read from stdin.
InIdle ==
    /\ stdinText = <<>>
    /\ stdinPos = 0
    /\ filter = [active |-> FALSE, buffer |-> <<>>]
    /\ inPc = "done"
    /\ ptyInput = <<>>

\* No signal is forwarded and the host terminal is left alone.
PtyIdle ==
    /\ sigCh = <<>>
    /\ sigTaken = <<>>
    /\ ptmxIn = <<>>
    /\ procSignals = <<>>
    /\ resizes = 0
    /\ sigOn = FALSE
    /\ isTTY = FALSE
    /\ hostTerm = "cooked"
    /\ restoreLog = <<>>
    /\ LockIdle
    /\ InIdle

\* The specifications that follow SpecSession are not running.
ExtIdle == RunIdle /\ CacheIdle /\ FindIdle /\ MaskIdle /\ PtyIdle

(***************************************************************************)
(* SpecTok: a client collects bytes and pushes them into one tokenizer in  *)
(* chunks cut anywhere, then flushes it.                                   *)
(***************************************************************************)
TokBytes == {ESC, LBracket, RBracket, LetterP, Backslash, BEL, Digit0, LetterM}

\* No client of a tokenizer of its own is running.
TokIdle ==
    /\ tokenizer = NewTokenizer
    /\ pushed = <<>>
    /\ segments = <<>>
    /\ lastPush = <<>>
    /\ flushed = FALSE
    /\ collected = <<>>

TokInit ==
    /\ TokIdle
    /\ ExtIdle
    /\ StreamIdle
    /\ SessIdle

\* The client adds a byte to the chunk it will push next.
TokCollect ==
    /\ ~flushed
    /\ Len(pushed) + Len(collected) < MaxTokLen
    /\ \E b \in TokBytes : collected' = Append(collected, b)
    /\ UNCHANGED <<extVars, tokenizer, pushed, segments, lastPush, flushed, streamVars,
                   sessVars>>

TokPush ==
    /\ ~flushed
    /\ collected # <<>>
    /\ LET r == Push(tokenizer, collected)
       IN  /\ tokenizer' = r.t
           /\ segments' = segments \o r.segs
           /\ lastPush' = r.segs
    /\ pushed' = pushed \o collected
    /\ collected' = <<>>
    /\ UNCHANGED <<extVars, flushed, streamVars, sessVars>>

TokFlush ==
    /\ ~flushed
    /\ collected = <<>>
    /\ LET r == Flush(tokenizer)
       IN  /\ tokenizer' = r.t
           /\ segments' = segments \o r.segs
           /\ lastPush' = r.segs
    /\ flushed' = TRUE
    /\ UNCHANGED <<extVars, pushed, collected, streamVars, sessVars>>

TokNext == TokCollect \/ TokPush \/ TokFlush

SpecTok == TokInit /\ [][TokNext]_vars

(***************************************************************************)
(* SpecStream: a child produces bytes; the output mover hands what has     *)
(* accumulated to Stream.Write, in chunks cut anywhere, and closes the     *)
(* stream at the end.  The stream has no cache here.                       *)
(***************************************************************************)
StrInit ==
    /\ TokIdle
    /\ ExtIdle
    /\ \E window \in StreamWindows, status \in BOOLEAN :
          stream = NewStream(StreamCfg(window, status), FALSE)
    /\ sink = <<>>
    /\ cache = NoCache
    /\ clock = 1
    /\ puts = 0
    /\ input = <<>>
    /\ pending = <<>>
    /\ closed = FALSE
    /\ escSeen = <<>>
    /\ reported = {}
    /\ SessIdle

\* The child writes one byte to the PTY.
StrProduce ==
    /\ ~closed
    /\ Len(input) + Len(pending) < MaxStreamLen
    /\ \E b \in StreamBytes : pending' = Append(pending, b)
    /\ UNCHANGED <<extVars, tokVars, stream, sink, cache, clock, puts, input, closed,
                   escSeen, reported, sessVars>>

\* The output mover hands the bytes that have accumulated to Stream.Write.
StrWrite ==
    /\ ~closed
    /\ pending # <<>>
    /\ Commit(Write(World, pending))
    /\ input' = input \o pending
    /\ pending' = <<>>
    /\ UNCHANGED <<extVars, tokVars, clock, closed, sessVars>>

\* The output mover closes the stream.
StrClose ==
    /\ ~closed
    /\ pending = <<>>
    /\ Commit(Close(World))
    /\ closed' = TRUE
    /\ UNCHANGED <<extVars, tokVars, clock, input, pending, sessVars>>

StrNext == StrProduce \/ StrWrite \/ StrClose

SpecStream == StrInit /\ [][StrNext]_vars

SessInit ==
    /\ TokIdle
    /\ ExtIdle
    /\ StreamIdle
    /\ \E mode \in {"demo", "strict"}, disableCopy \in BOOLEAN,
          copy \in BOOLEAN, allow \in BOOLEAN, commands \in Allowlists :
          config = SessCfg(mode, disableCopy, copy, allow, commands)
    /\ cmd \in Commands
    /\ interactive \in BOOLEAN
    /\ pc = "start"
    /\ stateCache = FALSE
    /\ output = "none"
    /\ ipc = FALSE
    /\ envAdded = {}
    /\ resp = NoResponse
    /\ copied = <<>>
    /\ writes = 0

\* PersistentPreRunE: state.cache = ensureCache(state.cache, config)
SessPreRun ==
    /\ pc = "start"
    /\ LET e == ensureCache([has |-> stateCache, c |-> cache], config)
       IN  /\ stateCache' = e.has
           /\ cache' = e.c
    /\ pc' = "ready"
    /\ UNCHANGED <<extVars, tokVars, stream, sink, clock, input, pending, closed,
                   escSeen, reported, puts, config, cmd, interactive, output,
                   ipc, envAdded, resp, copied, writes>>

\* runWithPTY up to the start of the cmd.
SessStart ==
    /\ pc = "ready"
    /\ \E socketOK \in BOOLEAN :
          LET r == runWithPTY(config, cmd, stateCache, interactive, socketOK)
          IN  /\ stream' = r.stream
              /\ output' = r.output
              /\ ipc' = r.listening
              /\ envAdded' = r.env
    /\ pc' = "running"
    /\ UNCHANGED <<extVars, tokVars, sink, cache, clock, input, pending, closed,
                   escSeen, reported, puts, config, cmd, interactive,
                   stateCache, resp, copied, writes>>

\* copyWithContext: io.Copy hands one chunk read from the PTY to the output.
SessOutput ==
    /\ pc = "running"
    /\ writes < MaxSessWrites
    /\ \E chunk \in SessChunks :
          /\ IF output = "stream"
             THEN Commit(Write(World, chunk))
             ELSE /\ sink' = Append(sink,
                        [kind |-> "direct", bytes |-> chunk,
                         pos |-> [i \in 1..Len(chunk) |-> Len(input) + i]])
                  /\ UNCHANGED <<stream, cache, puts, reported, escSeen>>
          /\ input' = input \o chunk
    /\ writes' = writes + 1
    /\ UNCHANGED <<extVars, tokVars, clock, pending, closed, config, cmd, interactive,
                   pc, stateCache, output, ipc, envAdded, resp, copied>>

\* Server.handle: a client connects and sends one request.
SessHandle ==
    /\ pc = "running"
    /\ ipc
    /\ \E req \in Requests, copyErr \in CopyErrors :
          LET h == handle(cache, req, clock, copyErr)
          IN  /\ cache' = h.c
              /\ resp' = h.resp
              /\ copied' = h.copied
    /\ UNCHANGED <<extVars, tokVars, stream, sink, clock, input, pending, closed,
                   escSeen, reported, puts, config, cmd, interactive, pc,
                   stateCache, output, ipc, envAdded, writes>>

\* Time passes, until a record put at the start has expired.
SessTick ==
    /\ pc = "running"
    /\ clock < CacheTTL + 2
    /\ clock' = clock + 1
    /\ UNCHANGED <<extVars, tokVars, stream, sink, cache, input, pending, closed,
                   escSeen, reported, puts, sessVars>>

\* The child has exited: RunCommand closes the output, runWithPTY's cleanup
\* closes the IPC server.
SessExit ==
    /\ pc = "running"
    /\ IF output = "stream"
       THEN Commit(Close(World))
       ELSE UNCHANGED <<stream, sink, cache, puts, reported, escSeen>>
    /\ closed' = TRUE
    /\ ipc' = FALSE
    /\ pc' = "done"
    /\ UNCHANGED <<extVars, tokVars, clock, input, pending, config, cmd, interactive,
                   stateCache, output, envAdded, resp, copied, writes>>

SessNext ==
    SessPreRun \/ SessStart \/ SessOutput \/ SessHandle \/ SessTick
    \/ SessExit

SpecSession == SessInit /\ [][SessNext]_vars

(***************************************************************************)
(* SpecRun: one call of ptywrap.RunCommand.  The supervisor puts the       *)
(* terminal in raw mode, starts the child under a PTY and the goroutine    *)
(* copyWithContext, waits for the child, then cancels the context, closes  *)
(* the PTY master and the output, receives from errCh and returns.  The    *)
(* mover copies what the child writes until its read fails, then selects   *)
(* between sending on errCh and ctx.Done().                                *)
(***************************************************************************)
RunInit ==
    /\ TokIdle
    /\ StreamIdle
    /\ SessIdle
    /\ CacheIdle
    /\ FindIdle
    /\ MaskIdle
    /\ PtyIdle
    /\ runPc = "makeRaw"
    /\ moverPc = "none"
    /\ ctxDone = FALSE
    /\ errCh = <<>>
    /\ ptmxClosed = FALSE
    /\ outClosed = FALSE
    /\ child = [state |-> "none", how |-> NoEnd, status |-> 0]
    /\ ptyData = 0
    /\ moved = 0
    /\ runFail \in RunFailures
    /\ runResult = NoResult

\* restore, err := maybeMakeRaw(...)
RunMakeRaw ==
    /\ runPc = "makeRaw"
    /\ IF runFail = "makeRaw"
       THEN runPc' = "returned" /\ runResult' = RunFailed
       ELSE runPc' = "startWithPTY" /\ UNCHANGED runResult
    /\ UNCHANGED <<tokVars, streamVars, sessVars, cacheVars, findVars, maskVars, ptyVars, moverPc, ctxDone, errCh,
                   ptmxClosed, outClosed, child, ptyData, moved, runFail>>

\* ptmx, err := startWithPTY(...)
RunStartWithPTY ==
    /\ runPc = "startWithPTY"
    /\ IF runFail # "none"
       THEN /\ runPc' = "returned"
            /\ runResult' = RunFailed
            /\ UNCHANGED child
       ELSE /\ runPc' = "go"
            /\ child' = [child EXCEPT !.state = "running"]
            /\ UNCHANGED runResult
    /\ UNCHANGED <<tokVars, streamVars, sessVars, cacheVars, findVars, maskVars, ptyVars, moverPc, ctxDone, errCh,
                   ptmxClosed, outClosed, ptyData, moved, runFail>>

\* errCh := make(chan error, 1); go copyWithContext(ctx, out, ptmx, errCh)
RunGo ==
    /\ runPc = "go"
    /\ runPc' = "wait"
    /\ moverPc' = "copy"
    /\ UNCHANGED <<tokVars, streamVars, sessVars, cacheVars, findVars, maskVars, ptyVars, ctxDone, errCh, ptmxClosed,
                   outClosed, child, ptyData, moved, runFail, runResult>>

\* The child writes a chunk to its terminal.
ChildWrite ==
    /\ child.state = "running"
    /\ ptyData + moved < MaxRunChunks
    /\ ptyData' = ptyData + 1
    /\ UNCHANGED <<tokVars, streamVars, sessVars, cacheVars, findVars, maskVars, ptyVars, runPc, moverPc, ctxDone,
                   errCh, ptmxClosed, outClosed, child, moved, runFail,
                   runResult>>

\* The child ends.
ChildExit ==
    /\ child.state = "running"
    /\ \E how \in ChildEnds :
          child' = [state |-> "exited", how |-> how,
                    status |-> WaitStatusOf(how)]
    /\ UNCHANGED <<tokVars, streamVars, sessVars, cacheVars, findVars, maskVars, ptyVars, runPc, moverPc, ctxDone,
                   errCh, ptmxClosed, outClosed, ptyData, moved, runFail,
                   runResult>>

\* io.Copy in copyWithContext reads a chunk from ptmx and writes it to dst.
MoverRead ==
    /\ moverPc = "copy"
    /\ ~ptmxClosed
    /\ ptyData > 0
    /\ ptyData' = ptyData - 1
    /\ moved' = moved + 1
    /\ UNCHANGED <<tokVars, streamVars, sessVars, cacheVars, findVars, maskVars, ptyVars, runPc, moverPc, ctxDone,
                   errCh, ptmxClosed, outClosed, child, runFail, runResult>>

\* The read of io.Copy fails: ptmx is closed, or the child has ended and
\* nothing is left to read.  io.Copy returns.
MoverEnd ==
    /\ moverPc = "copy"
    /\ ptmxClosed \/ (child.state = "exited" /\ ptyData = 0)
    /\ moverPc' = "select"
    /\ UNCHANGED <<tokVars, streamVars, sessVars, cacheVars, findVars, maskVars, ptyVars, runPc, ctxDone, errCh,
                   ptmxClosed, outClosed, child, ptyData, moved, runFail,
                   runResult>>

\* select: case errCh <- err
MoverSend ==
    /\ moverPc = "select"
    /\ Len(errCh) < ErrChCap
    /\ errCh' = Append(errCh, "err")
    /\ moverPc' = "done"
    /\ UNCHANGED <<tokVars, streamVars, sessVars, cacheVars, findVars, maskVars, ptyVars, runPc, ctxDone, ptmxClosed,
                   outClosed, child, ptyData, moved, runFail, runResult>>

\* select: case <-ctx.Done()
MoverCancelled ==
    /\ moverPc = "select"
    /\ ctxDone
    /\ moverPc' = "done"
    /\ UNCHANGED <<tokVars, streamVars, sessVars, cacheVars, findVars, maskVars, ptyVars, runPc, ctxDone, errCh,
                   ptmxClosed, outClosed, child, ptyData, moved, runFail,
                   runResult>>

\* waitErr := cmd.Wait()
RunWait ==
    /\ runPc = "wait"
    /\ child.state = "exited"
    /\ runPc' = "cancel"
    /\ UNCHANGED <<tokVars, streamVars, sessVars, cacheVars, findVars, maskVars, ptyVars, moverPc, ctxDone, errCh,
                   ptmxClosed, outClosed, child, ptyData, moved, runFail,
                   runResult>>

\* cancel()
RunCancel ==
    /\ runPc = "cancel"
    /\ ctxDone' = TRUE
    /\ runPc' = "closePTY"
    /\ UNCHANGED <<tokVars, streamVars, sessVars, cacheVars, findVars, maskVars, ptyVars, moverPc, errCh, ptmxClosed,
                   outClosed, child, ptyData, moved, runFail, runResult>>

\* _ = ptmx.Close()
RunClosePTY ==
    /\ runPc = "closePTY"
    /\ ptmxClosed' = TRUE
    /\ runPc' = "closeOutput"
    /\ UNCHANGED <<tokVars, streamVars, sessVars, cacheVars, findVars, maskVars, ptyVars, moverPc, ctxDone, errCh,
                   outClosed, child, ptyData, moved, runFail, runResult>>

\* _ = closeOutput(out)
RunCloseOutput ==
    /\ runPc = "closeOutput"
    /\ outClosed' = TRUE
    /\ runPc' = "recv"
    /\ UNCHANGED <<tokVars, streamVars, sessVars, cacheVars, findVars, maskVars, ptyVars, moverPc, ctxDone, errCh,
                   ptmxClosed, child, ptyData, moved, runFail, runResult>>

\* <-errCh, then the return of exitCode(waitErr)
RunRecv ==
    /\ runPc = "recv"
    /\ errCh # <<>>
    /\ errCh' = Tail(errCh)
    /\ runResult' = RunReturn(Wait(child.status))
    /\ runPc' = "returned"
    /\ UNCHANGED <<tokVars, streamVars, sessVars, cacheVars, findVars, maskVars, ptyVars, moverPc, ctxDone,
                   ptmxClosed, outClosed, child, ptyData, moved, runFail>>

\* The steps of the goroutine of RunCommand.
RunSupervisor ==
    \/ RunMakeRaw
    \/ RunStartWithPTY
    \/ RunGo
    \/ RunWait
    \/ RunCancel
    \/ RunClosePTY
    \/ RunCloseOutput
    \/ RunRecv

\* The steps of the goroutine copyWithContext.
RunMover == MoverRead \/ MoverEnd \/ MoverSend \/ MoverCancelled

RunNext == RunSupervisor \/ RunMover \/ ChildWrite \/ ChildExit

SpecRun == RunInit /\ [][RunNext]_vars

\* The Go scheduler runs every goroutine that can take a step.
SpecRunLive == SpecRun /\ WF_vars(RunSupervisor) /\ WF_vars(RunMover)

(***************************************************************************)
(* SpecCache: one cache made by cache.New, its operations called in any    *)
(* order by its clients, and the clock.  putLog keeps                      *)
(* the calls of Put that store a record (ttl > 0, original not empty), in  *)
(* order, with the time and the ttl of the call.                           *)
(***************************************************************************)
\* The IDs of recency after an access to id: id is the latest.
Touch(ids, id) == <<id>> \o SelectSeq(ids, LAMBDA other : other # id)

CacheInit ==
    /\ TokIdle
    /\ SessIdle
    /\ RunIdle
    /\ FindIdle
    /\ MaskIdle
    /\ PtyIdle
    /\ stream = NewStream(StreamCfg(0, FALSE), FALSE)
    /\ sink = <<>>
    /\ \E maxEntries \in CacheSizes, ttl \in CacheTTLs :
          cache = New(maxEntries, ttl)
    /\ clock = 1
    /\ puts = 0
    /\ input = <<>>
    /\ pending = <<>>
    /\ closed = FALSE
    /\ escSeen = <<>>
    /\ reported = {}
    /\ putLog = <<>>
    /\ recency = <<>>

CachePut ==
    /\ Len(putLog) < MaxCachePuts
    /\ \E id \in CacheIDs, original \in {<<>>, <<LetterS>>} :
          /\ cache' = Put(cache, CacheRecord(id, original), clock)
          /\ putLog' = IF cache.ttl > 0 /\ original # <<>>
                       THEN Append(putLog, [ID |-> id, Original |-> original,
                                            at |-> clock, ttl |-> cache.ttl])
                       ELSE putLog
          /\ recency' = IF cache.ttl > 0 /\ original # <<>>
                        THEN Touch(recency, id) ELSE recency
    /\ UNCHANGED <<tokVars, sessVars, runVars, findVars, maskVars, ptyVars, stream, sink, clock, input,
                   pending, closed, escSeen, reported, puts>>

CacheGet ==
    /\ \E id \in CacheIDs :
          /\ cache' = Get(cache, id, clock).c
          /\ recency' = IF Get(cache, id, clock).ok
                        THEN Touch(recency, id) ELSE recency
    /\ UNCHANGED <<tokVars, sessVars, runVars, findVars, maskVars, ptyVars, stream, sink, clock, input,
                   pending, closed, escSeen, reported, puts, putLog>>

CacheGetLast ==
    /\ cache' = GetLast(cache, clock).c
    /\ recency' = IF GetLast(cache, clock).ok
                  THEN Touch(recency, GetLast(cache, clock).rec.ID)
                  ELSE recency
    /\ UNCHANGED <<tokVars, sessVars, runVars, findVars, maskVars, ptyVars, stream, sink, clock, input,
                   pending, closed, escSeen, reported, puts, putLog>>

CacheSetTTL ==
    /\ \E ttl \in CacheTTLs : cache' = SetTTL(cache, ttl)
    /\ UNCHANGED <<tokVars, sessVars, runVars, findVars, maskVars, ptyVars, stream, sink, clock, input,
                   pending, closed, escSeen, reported, puts, putLog, recency>>

CacheSetMaxEntries ==
    /\ \E maxEntries \in CacheSizes :
          cache' = SetMaxEntries(cache, maxEntries, clock)
    /\ UNCHANGED <<tokVars, sessVars, runVars, findVars, maskVars, ptyVars, stream, sink, clock, input,
                   pending, closed, escSeen, reported, puts, putLog, recency>>

\* Time passes.
CacheTick ==
    /\ clock < MaxCacheClock
    /\ clock' = clock + 1
    /\ UNCHANGED <<tokVars, sessVars, runVars, findVars, maskVars, ptyVars, stream, sink, cache, input,
                   pending, closed, escSeen, reported, puts, putLog, recency>>

CacheNext ==
    \/ CachePut
    \/ CacheGet
    \/ CacheGetLast
    \/ CacheSetTTL
    \/ CacheSetMaxEntries
    \/ CacheTick

SpecCache == CacheInit /\ [][CacheNext]_vars

(***************************************************************************)
(* SpecIDs: the stream of SpecStream with event IDs in use (include_event_ *)
(* id set, or a cache attached that stores nothing), fed whole pieces of   *)
(* output so that several secrets pass through it.                         *)
(***************************************************************************)
\* Pieces of child output: a label, a secret, a secret that ends its line,
\* and a whole line with a secret.
IDChunks ==
    {<<LetterK, EqualsSign>>, <<LetterS>>, <<LetterS, Newline>>,
     <<LetterK, EqualsSign, LetterS, Newline>>}

\* Values of rolling_window_bytes: the unbuffered regime, a window shorter
\* than a line and a window that holds a line.
IDWindows == {0, 2, 4}

IDInit ==
    /\ TokIdle
    /\ ExtIdle
    /\ SessIdle
    /\ \E window \in IDWindows, includeID \in BOOLEAN, hasCache \in BOOLEAN :
          /\ includeID \/ hasCache
          /\ stream = NewStream([StreamCfg(window, FALSE)
                                  EXCEPT !.IncludeEventID = includeID],
                                hasCache)
          /\ cache = IF hasCache THEN New(0, 0) ELSE NoCache
    /\ sink = <<>>
    /\ clock = 1
    /\ puts = 0
    /\ input = <<>>
    /\ pending = <<>>
    /\ closed = FALSE
    /\ escSeen = <<>>
    /\ reported = {}

\* The child writes a piece of output to the PTY.
IDProduce ==
    /\ ~closed
    /\ \E chunk \in IDChunks :
          /\ Len(input) + Len(pending) + Len(chunk) <= MaxIDLen
          /\ pending' = pending \o chunk
    /\ UNCHANGED <<extVars, tokVars, stream, sink, cache, clock, puts, input,
                   closed, escSeen, reported, sessVars>>

IDNext == IDProduce \/ StrWrite \/ StrClose

SpecIDs == IDInit /\ [][IDNext]_vars

(***************************************************************************)
(* SpecResolve: Engine.Find on a text, the regexp package taken by its     *)
(* contract.  A hit of a rule's pattern reports the offsets of the rule's  *)
(* group: -1, -1 when the group took no part in the hit or does not exist, *)
(* offsets inside the text otherwise.  The regex pass comes first, the     *)
(* typed pass second; then the candidates are sorted and swept.            *)
(***************************************************************************)
\* Texts: only their length matters here.
ResolveTexts == {<<LetterS, LetterS, LetterS>>}

\* severityRank of the severities rules and detectors are given.
ResolveSeverities == {severityMed, severityHigh}

\* The offsets FindAllStringSubmatchIndex can report for a group.
GroupBounds(text) ==
    {<<0 - 1, 0 - 1>>}
    \cup {<<a, b>> \in (0..Len(text)) \X (0..Len(text)) : a <= b}

\* The candidate a pass builds.
CandidateOf(start, end, severity, source, name) ==
    [match |-> [Start |-> start, End |-> end, Action |-> "mask",
                SecretType |-> "EVM_PK", RuleName |-> name, ID |-> 0],
     severity |-> severity,
     source |-> source,
     length |-> end - start]

\* The less function resolveOverlaps sorts with.
StartsBefore(a, b) ==
    IF a.match.Start = b.match.Start THEN a.match.End < b.match.End
    ELSE a.match.Start < b.match.Start

RECURSIVE OrdersOf(_, _)
\* The orders of the candidates at idxs in which none comes after one it
\* is less than.
OrdersOf(cands, idxs) ==
    IF idxs = {} THEN {<<>>}
    ELSE UNION {{<<cands[i]>> \o rest : rest \in OrdersOf(cands, idxs \ {i})} :
                   i \in {k \in idxs :
                            \A m \in idxs : ~StartsBefore(cands[m], cands[k])}}

\* What sort.Slice can leave: sort.Slice is not stable, so candidates that
\* neither is less than the other come in any order.
SortedOrders(cands) == OrdersOf(cands, 1..Len(cands))

ResolveInit ==
    /\ TokIdle
    /\ StreamIdle
    /\ SessIdle
    /\ RunIdle
    /\ CacheIdle
    /\ MaskIdle
    /\ PtyIdle
    /\ findCfg = <<>>
    /\ findText \in ResolveTexts
    /\ findCands = <<>>
    /\ findOut = <<>>
    /\ findPc = "regex"

\* findRegexMatches: one hit of one rule.
ResolveRegexHit ==
    /\ findPc = "regex"
    /\ Len(findCands) < MaxCands
    /\ \E idx \in GroupBounds(findText), severity \in ResolveSeverities :
          /\ ~(idx[1] < 0 \/ idx[2] <= idx[1])
          /\ findCands' = Append(findCands,
                 CandidateOf(idx[1], idx[2], severity, "sourceRegex",
                             "env_private_key"))
    /\ UNCHANGED <<tokVars, streamVars, sessVars, runVars, cacheVars, maskVars, ptyVars,
                   findCfg, findText, findOut, findPc>>

\* findTypedMatches: one hit of a detector's pattern, which
\* buildTypedCandidate scores 2 or more.
ResolveTypedHit ==
    /\ findPc \in {"regex", "typed"}
    /\ Len(findCands) < MaxCands
    /\ \E idx \in GroupBounds(findText), severity \in ResolveSeverities :
          /\ ~(idx[1] < 0 \/ idx[2] <= idx[1] \/ idx[2] > Len(findText))
          /\ findCands' = Append(findCands,
                 CandidateOf(idx[1], idx[2], severity, "sourceTyped",
                             "evm_private_key"))
    /\ findPc' = "typed"
    /\ UNCHANGED <<tokVars, streamVars, sessVars, runVars, cacheVars, maskVars, ptyVars,
                   findCfg, findText, findOut>>

\* Engine.Find, from the candidates on.
ResolveFind ==
    /\ findPc \in {"regex", "typed"}
    /\ IF findCands = <<>> THEN findOut' = <<>>
       ELSE \E sorted \in SortedOrders(findCands) :
               LET resolved == Sweep(sorted, <<>>)
               IN  findOut' = [i \in 1..Len(resolved) |-> resolved[i].match]
    /\ findPc' = "done"
    /\ UNCHANGED <<tokVars, streamVars, sessVars, runVars, cacheVars, maskVars, ptyVars,
                   findCfg, findText, findCands>>

ResolveNext == ResolveRegexHit \/ ResolveTypedHit \/ ResolveFind

SpecResolve == ResolveInit /\ [][ResolveNext]_vars

(***************************************************************************)
(* internal/detect: the engine built from a configuration, on texts of     *)
(* real bytes.  A pattern is the string the configuration holds; the       *)
(* regexp package is modelled for the patterns of the default rule, of the *)
(* rule token_generic and of the two patterns NewEngine compiles itself.   *)
(***************************************************************************)
contextWindow == 64
EvmHexLen == 64

PatEnvPrivateKey == "(?i)\\bPRIVATE_KEY\\s*=\\s*([^\\s]+)"
PatToken == "([A-Za-z0-9]{8,})"
PatEvmWithPrefix == "0x[0-9a-fA-F]{64}"
PatEvmBare == "\\b[0-9a-fA-F]{64}\\b"

\* n bytes b.
Repeat(b, n) == [i \in 1..n |-> b]

\* strings.ToLower on ASCII bytes.
ToLower(text) ==
    [i \in 1..Len(text) |->
        IF text[i] >= 65 /\ text[i] <= 90 THEN text[i] + 32 ELSE text[i]]

IsAlnum(b) ==
    \/ b >= 48 /\ b <= 57
    \/ b >= 65 /\ b <= 90
    \/ b >= 97 /\ b <= 122

IsHexByte(b) ==
    \/ b >= 48 /\ b <= 57
    \/ b >= 97 /\ b <= 102
    \/ b >= 65 /\ b <= 70

\* isHex
isHex(token) == \A i \in 1..Len(token) : IsHexByte(token[i])

RECURSIVE SkipWhile(_, _, _)
\* The offset where the run of bytes of the set class that starts at
\* offset i ends.
SkipWhile(text, i, class) ==
    IF i < Len(text) /\ At(text, i) \in class
    THEN SkipWhile(text, i + 1, class) ELSE i

\* \b at offset i: one side is a word byte, the other is not.
WordBoundary(text, i) ==
    (i > 0 /\ IsWord(At(text, i - 1))) # (i < Len(text) /\ IsWord(At(text, i)))

NoHit == [ok |-> FALSE, idx |-> <<>>]

\* The hit of a pattern that begins at offset i, if there is one: idx holds
\* the offsets of the hit and then those of its groups.
PatternMatchAt(pattern, text, i) ==
    LET n == Len(text)
    IN  CASE pattern = PatEnvPrivateKey ->
                LET word == <<112, 114, 105, 118, 97, 116, 101, 95, 107, 101, 121>>
                    k == i + Len(word)
                    eq == SkipSpace(text, k)
                    g == SkipSpace(text, eq + 1)
                    e == SkipNonSpace(text, g)
                IN  IF /\ k <= n
                       /\ ToLower(Slice(text, i, k)) = word
                       /\ WordBoundary(text, i)
                       /\ eq < n
                       /\ At(text, eq) = EqualsSign
                       /\ g < n
                       /\ e > g
                    THEN [ok |-> TRUE, idx |-> <<i, e, g, e>>]
                    ELSE NoHit
          [] pattern = PatToken ->
                LET e == SkipWhile(text, i, {b \in 0..255 : IsAlnum(b)})
                IN  IF e - i >= 8
                    THEN [ok |-> TRUE, idx |-> <<i, e, i, e>>]
                    ELSE NoHit
          [] pattern = PatEvmWithPrefix ->
                IF /\ i + 2 + EvmHexLen <= n
                   /\ At(text, i) = Digit0
                   /\ At(text, i + 1) = 120
                   /\ isHex(Slice(text, i + 2, i + 2 + EvmHexLen))
                THEN [ok |-> TRUE, idx |-> <<i, i + 2 + EvmHexLen>>]
                ELSE NoHit
          [] pattern = PatEvmBare ->
                IF /\ i + EvmHexLen <= n
                   /\ isHex(Slice(text, i, i + EvmHexLen))
                   /\ WordBoundary(text, i)
                   /\ WordBoundary(text, i + EvmHexLen)
                THEN [ok |-> TRUE, idx |-> <<i, i + EvmHexLen>>]
                ELSE NoHit
          [] OTHER -> NoHit

RECURSIVE FindAllIndex(_, _, _)
\* FindAllStringSubmatchIndex(str, -1) from offset i on: the leftmost hits
\* that do not overlap.
FindAllIndex(pattern, text, i) ==
    IF i >= Len(text) THEN <<>>
    ELSE LET r == PatternMatchAt(pattern, text, i)
         IN  IF r.ok
             THEN <<r.idx>> \o FindAllIndex(pattern, text, r.idx[2])
             ELSE FindAllIndex(pattern, text, i + 1)

\* captureBounds: <<start, end>>.
captureBounds(submatches, group) ==
    IF group < 0 THEN <<0 - 1, 0 - 1>>
    ELSE IF group * 2 + 1 >= Len(submatches) THEN <<0 - 1, 0 - 1>>
    ELSE <<submatches[group * 2 + 1], submatches[group * 2 + 2]>>

severityRank(severity) ==
    CASE severity = "high" -> severityHigh
      [] severity = "med" -> severityMed
      [] severity = "low" -> 1
      [] OTHER -> 0

\* lowerKeywords
lowerKeywords(in) ==
    LET kept == SelectSeq(in, LAMBDA kw : kw # <<>>)
    IN  [i \in 1..Len(kept) |-> ToLower(kept[i])]

\* config.RulesetEnabled
RulesetEnabled(name, sets) ==
    CASE name = "" -> TRUE
      [] name = "web3" -> sets.Web3.Enabled
      [] name = "auth_tokens" -> sets.AuthTokens.Enabled
      [] OTHER -> FALSE

\* NewEngine
NewEngine(cfg) ==
    LET rules == SelectSeq(cfg.Rules,
                     LAMBDA rule : /\ rule.Enabled
                                   /\ rule.Type = "regex"
                                   /\ rule.Pattern # "")
        dets == SelectSeq(cfg.TypedDetectors, LAMBDA det : det.Enabled)
    IN  [regexRules |-> [i \in 1..Len(rules) |->
                            [rule |-> rules[i], re |-> rules[i].Pattern,
                             group |-> rules[i].Group,
                             severity |-> severityRank(rules[i].Severity)]],
         typed |-> [i \in 1..Len(dets) |->
                       [detector |-> dets[i],
                        severity |-> severityRank(dets[i].Severity),
                        keywords |-> lowerKeywords(dets[i].ContextKeywords)]],
         allowBare64Hex |-> cfg.Rulesets.Web3.AllowBare64Hex]

\* hasContextKeyword
hasContextKeyword(text, start, end, keywords) ==
    IF keywords = <<>> THEN FALSE
    ELSE LET windowStart == IF start - contextWindow < 0 THEN 0
                            ELSE start - contextWindow
             windowEnd == IF end + contextWindow > Len(text) THEN Len(text)
                          ELSE end + contextWindow
             chunk == ToLower(Slice(text, windowStart, windowEnd))
         IN  \E i \in 1..Len(keywords) : Contains(chunk, keywords[i])

has0xPrefix(token) ==
    Len(token) >= 2 /\ token[1] = Digit0 /\ token[2] \in {120, LetterX}

validateEvmPrivateKey(token, allowBare) ==
    IF has0xPrefix(token)
    THEN isHex(Slice(token, 2, Len(token))) /\ Len(token) - 2 = EvmHexLen
    ELSE IF ~allowBare THEN FALSE
    ELSE Len(token) = EvmHexLen /\ isHex(token)

RECURSIVE RuleHits(_, _, _)
\* The inner loop of findRegexMatches: the candidates of one rule.
RuleHits(rule, text, indices) ==
    IF indices = <<>> THEN <<>>
    ELSE LET b == captureBounds(Head(indices), rule.group)
         IN  (IF b[1] < 0 \/ b[2] <= b[1] THEN <<>>
              ELSE <<[match |-> [Start |-> b[1], End |-> b[2],
                                 Action |-> rule.rule.Action,
                                 SecretType |-> "EVM_PK",
                                 RuleName |-> rule.rule.Name, ID |-> 0],
                      severity |-> rule.severity,
                      source |-> "sourceRegex",
                      length |-> b[2] - b[1]]>>)
             \o RuleHits(rule, text, Tail(indices))

RECURSIVE RegexLoop(_, _)
\* The outer loop of findRegexMatches.
RegexLoop(rules, text) ==
    IF rules = <<>> THEN <<>>
    ELSE RuleHits(Head(rules), text,
                  FindAllIndex(Head(rules).re, text, 0))
         \o RegexLoop(Tail(rules), text)

\* Engine.findRegexMatches
findRegexMatchesOf(e, text) == RegexLoop(e.regexRules, text)

\* Engine.buildTypedCandidate
buildTypedCandidate(e, text, start, end, det) ==
    IF start < 0 \/ end <= start \/ end > Len(text) THEN <<>>
    ELSE LET matchBytes == Slice(text, start, end)
             score ==
                 (IF validateEvmPrivateKey(matchBytes, e.allowBare64Hex)
                  THEN 2 ELSE 0)
                 + (IF hasContextKeyword(text, start, end, det.keywords)
                    THEN 1 ELSE 0)
                 + (IF has0xPrefix(matchBytes) THEN 1 ELSE 0)
         IN  IF score < 2 THEN <<>>
             ELSE <<[match |-> [Start |-> start, End |-> end,
                                Action |-> det.detector.Action,
                                SecretType |-> "EVM_PK",
                                RuleName |-> det.detector.Name, ID |-> 0],
                     severity |-> det.severity,
                     source |-> "sourceTyped",
                     length |-> end - start]>>

RECURSIVE TypedHits(_, _, _, _)
TypedHits(e, text, indices, det) ==
    IF indices = <<>> THEN <<>>
    ELSE buildTypedCandidate(e, text, Head(indices)[1], Head(indices)[2], det)
         \o TypedHits(e, text, Tail(indices), det)

RECURSIVE TypedLoop(_, _, _)
\* The loop of findTypedMatches over the detectors.
TypedLoop(e, text, dets) ==
    IF dets = <<>> THEN <<>>
    ELSE LET det == Head(dets)
         IN  (IF det.detector.Kind # "EVM_PRIVATE_KEY" THEN <<>>
              ELSE TypedHits(e, text,
                             FindAllIndex(PatEvmWithPrefix, text, 0), det)
                   \o (IF e.allowBare64Hex
                       THEN TypedHits(e, text,
                                FindAllIndex(PatEvmBare, text, 0), det)
                       ELSE <<>>))
             \o TypedLoop(e, text, Tail(dets))

\* Engine.findTypedMatches
findTypedMatchesOf(e, text) == TypedLoop(e, text, e.typed)

\* Engine.Find of an engine e.
FindOf(e, text) ==
    LET candidates == findRegexMatchesOf(e, text) \o findTypedMatchesOf(e, text)
    IN  IF candidates = <<>> THEN <<>>
        ELSE LET resolved == resolveOverlaps(candidates)
             IN  [i \in 1..Len(resolved) |-> resolved[i].match]

(***************************************************************************)
(* SpecEngine: an engine is built from a configuration and Find is called  *)
(* on texts.                                                               *)
(***************************************************************************)
\* The default rule env_private_key and the rule token_generic.
EngineRules ==
    {<<[Name |-> "env_private_key", Enabled |-> enabled, Type |-> "regex",
        Action |-> "mask", Severity |-> "high",
        SecretType |-> "EVM_PK", Ruleset |-> "web3",
        Pattern |-> PatEnvPrivateKey, Group |-> 1,
        ContextKeywords |-> <<<<112, 114, 105, 118, 97, 116, 101, 95, 107, 101, 121>>, <<115, 101, 99, 114, 101, 116>>,
                              <<115, 107>>, <<45, 45, 112, 114, 105, 118, 97, 116, 101, 45, 107, 101, 121>>>>]>> :
        enabled \in BOOLEAN}
    \cup
    {<<[Name |-> "token_generic", Enabled |-> TRUE, Type |-> "regex",
        Action |-> "mask", Severity |-> "high",
        SecretType |-> "AUTH_TOKEN", Ruleset |-> "auth_tokens",
        Pattern |-> PatToken, Group |-> 1,
        ContextKeywords |-> <<<<116, 111, 107, 101, 110>>>>]>>}

\* The default detector evm_private_key.
EngineDetectors ==
    {<<[Name |-> "evm_private_key", Enabled |-> enabled,
        Kind |-> "EVM_PRIVATE_KEY", Action |-> "mask", Severity |-> "high",
        SecretType |-> "EVM_PK", Ruleset |-> "web3",
        ContextKeywords |-> <<<<112, 114, 105, 118, 97, 116, 101, 95, 107, 101, 121>>, <<45, 45, 112, 114, 105, 118, 97, 116, 101, 45, 107, 101, 121>>,
                              <<115, 101, 99, 114, 101, 116>>, <<115, 107, 61>>>>]>> :
        enabled \in BOOLEAN}

EngineCfgs ==
    {[Rulesets |-> [Web3 |-> [Enabled |-> web3, AllowBare64Hex |-> bare],
                    AuthTokens |-> [Enabled |-> TRUE]],
      Rules |-> rules,
      TypedDetectors |-> dets] :
        web3 \in BOOLEAN, bare \in BOOLEAN, rules \in EngineRules,
        dets \in EngineDetectors}

\* A key with its prefix, a bare key, and the texts of the engine's tests;
\* a token with the keyword just inside and just outside the window.
EngineTexts ==
    LET label == <<80, 82, 73, 86, 65, 84, 69, 95, 75, 69, 89, 61>>
        token == <<97, 98, 99, 49, 50, 51, 52, 53>>
    IN  {label \o <<48, 120>> \o Repeat(97, EvmHexLen),
         label \o Repeat(99, EvmHexLen),
         <<107, 101, 121, 61>> \o <<48, 120>> \o Repeat(98, EvmHexLen),
         Repeat(99, EvmHexLen),
         token,
         <<116, 111, 107, 101, 110, 61>> \o token,
         token \o Repeat(32, contextWindow - 5) \o <<84, 79, 75, 69, 78>>,
         token \o Repeat(32, contextWindow - 4) \o <<116, 111, 107, 101, 110>>}

EngineInit ==
    /\ TokIdle
    /\ StreamIdle
    /\ SessIdle
    /\ RunIdle
    /\ CacheIdle
    /\ MaskIdle
    /\ PtyIdle
    /\ findCfg \in EngineCfgs
    /\ findText = <<>>
    /\ findCands = <<>>
    /\ findOut = <<>>
    /\ findPc = "new"

\* engine := NewEngine(cfg)
EngineNew ==
    /\ findPc = "new"
    /\ findPc' = "ready"
    /\ UNCHANGED <<tokVars, streamVars, sessVars, runVars, cacheVars, maskVars, ptyVars,
                   findCfg, findText, findCands, findOut>>

\* engine.Find(text)
EngineFind ==
    /\ findPc \in {"ready", "done"}
    /\ \E text \in EngineTexts :
          LET e == NewEngine(findCfg)
          IN  /\ findText' = text
              /\ findCands' = findRegexMatchesOf(e, text)
                              \o findTypedMatchesOf(e, text)
              /\ findOut' = FindOf(e, text)
    /\ findPc' = "done"
    /\ UNCHANGED <<tokVars, streamVars, sessVars, runVars, cacheVars, maskVars, ptyVars,
                   findCfg>>

EngineNext == EngineNew \/ EngineFind

SpecEngine == EngineInit /\ [][EngineNext]_vars

(***************************************************************************)
(* internal/redact: Redactor.replacement as bytes, for the style block and *)
(* the action placeholder, with the configuration and the outcome of the   *)
(* random source as arguments.  stable_hash_token is off; the styles glow  *)
(* and morse are not modelled.  A placeholder template is the list of its  *)
(* literal parts and its substitutions.                                    *)
(***************************************************************************)
NibbleCount == 16

\* randomHexNibble: b is the byte read from the random source.
randomHexNibble(b, uppercase) ==
    LET digits == IF uppercase THEN <<48, 49, 50, 51, 52, 53, 54, 55, 56, 57, 65, 66, 67, 68, 69, 70>>
                  ELSE <<48, 49, 50, 51, 52, 53, 54, 55, 56, 57, 97, 98, 99, 100, 101, 102>>
    IN  digits[(b % NibbleCount) + 1]

\* Redactor.hexRandomSameLength; rnd holds the bytes the random source
\* yields, one for each byte of the body.
hexRandomSameLengthOf(original, uppercase, rnd) ==
    LET keep == IF has0xPrefix(original) THEN 2 ELSE 0
    IN  SubSeq(original, 1, keep)
        \o [i \in 1..(Len(original) - keep) |->
               randomHexNibble(rnd[i], uppercase)]

\* utf8.RuneCount of bytes that are valid UTF-8.
RuneCount(original) ==
    Cardinality({i \in 1..Len(original) : RuneStart(original[i])})

RECURSIVE RepeatBytes(_, _)
\* strings.Repeat
RepeatBytes(bs, count) ==
    IF count <= 0 THEN <<>> ELSE bs \o RepeatBytes(bs, count - 1)

\* maskBlock, as bytes.
maskBlockOf(original, blockChar) ==
    IF RuneCount(original) <= 0 THEN <<>>
    ELSE RepeatBytes(blockChar, RuneCount(original))

\* Redactor.maskBytes
maskBytesOf(cfg, original, match, rnd) ==
    IF match.SecretType = "EVM_PK" \/ looksHex(original)
    THEN hexRandomSameLengthOf(original, cfg.Uppercase, rnd)
    ELSE maskBlockOf(original, cfg.BlockChar)

\* The bytes of a types.SecretType.
SecretTypeBytes(secretType) ==
    IF secretType = "EVM_PK" THEN <<69, 86, 77, 95, 80, 75>>
    ELSE <<80, 65, 83, 83, 87, 79, 82, 68>>

RECURSIVE RenderTemplate(_, _)
\* The strings.ReplaceAll calls of placeholder on a template.
RenderTemplate(parts, match) ==
    IF parts = <<>> THEN <<>>
    ELSE LET part == Head(parts)
         IN  (CASE part = "{type}" -> SecretTypeBytes(match.SecretType)
                [] part = "{id:02d}" ->
                      IF match.ID < 10 THEN <<Digit0>> \o Decimal(match.ID)
                      ELSE Decimal(match.ID)
                [] part = "{id}" -> Decimal(match.ID)
                [] OTHER -> part)
             \o RenderTemplate(Tail(parts), match)

\* Redactor.placeholder
placeholderOf(cfg, match) == RenderTemplate(cfg.PlaceholderTemplate, match)

\* Redactor.replacement
replacementOf(cfg, original, match, rnd) ==
    LET action == IF match.Action = "" THEN cfg.DefaultAction
                  ELSE match.Action
    IN  CASE action = "mask" -> maskBytesOf(cfg, original, match, rnd)
          [] action = "placeholder" -> placeholderOf(cfg, match)
          [] OTHER -> original

(***************************************************************************)
(* SpecMask: a redactor is built from a configuration and is handed one    *)
(* span with its match.                                                    *)
(***************************************************************************)
\* What spans are made of: 0, x, a, g and U+2588.
SpanUnits == {<<48>>, <<120>>, <<97>>, <<103>>, <<226, 150, 136>>}

RECURSIVE SpansOf(_)
SpansOf(n) ==
    IF n = 0 THEN {<<>>}
    ELSE {u \o t : u \in SpanUnits, t \in SpansOf(n - 1)}

MaskSpans == UNION {SpansOf(n) : n \in 1..MaxSpanUnits}

\* Bytes the random source yields.
RandomBytes == {0, 26}

\* The default template and the template of TestPlaceholderReplacement.
MaskTemplates ==
    {<<<<226, 159, 166, 82, 69, 68, 65, 67, 84, 69, 68, 58>>, "{type}", <<226, 159, 167>>>>,
     <<<<60, 60>>, "{type}", <<58>>, "{id:02d}", <<62, 62>>>>}

MaskCfgs ==
    {[DefaultAction |-> "mask", PlaceholderTemplate |-> template,
      BlockChar |-> blockChar, Uppercase |-> uppercase] :
        template \in MaskTemplates,
        blockChar \in {<<42>>, BlockChar},
        uppercase \in BOOLEAN}

MaskInit ==
    /\ PtyIdle
    /\ TokIdle
    /\ StreamIdle
    /\ SessIdle
    /\ RunIdle
    /\ CacheIdle
    /\ FindIdle
    /\ maskCfg = <<>>
    /\ maskIn = <<>>
    /\ maskOut = <<>>
    /\ maskPc = "new"

\* r := NewRedactor(cfg)
MaskNew ==
    /\ maskPc = "new"
    /\ maskCfg' \in MaskCfgs
    /\ maskPc' = "ready"
    /\ UNCHANGED <<tokVars, streamVars, sessVars, runVars, cacheVars,
                   findVars, ptyVars, maskIn, maskOut>>

\* r.replacement(original, match), the random source yielding rnd.
MaskReplace ==
    /\ maskPc = "ready"
    /\ \E original \in MaskSpans, action \in {"", "mask", "placeholder"},
          secretType \in {"EVM_PK", "PASSWORD"} :
          LET match == [Action |-> action, SecretType |-> secretType, ID |-> 3]
              drawn == IF action = "placeholder"
                       THEN {<<>>}
                       ELSE IF secretType = "EVM_PK" \/ looksHex(original)
                       THEN [1..(Len(original)
                                 - IF has0xPrefix(original) THEN 2 ELSE 0)
                             -> RandomBytes]
                       ELSE {<<>>}
          IN  \E rnd \in drawn :
                 /\ maskIn' = [original |-> original, match |-> match,
                               rnd |-> rnd]
                 /\ maskOut' = replacementOf(maskCfg, original, match, rnd)
    /\ maskPc' = "done"
    /\ UNCHANGED <<tokVars, streamVars, sessVars, runVars, cacheVars,
                   findVars, ptyVars, maskCfg>>

MaskNext == MaskNew \/ MaskReplace

SpecMask == MaskInit /\ [][MaskNext]_vars

(***************************************************************************)
(* C7.  For every byte sequence and every way of cutting it into Push      *)
(* calls, the bytes of all segments returned by the pushes followed by     *)
(* Flush, concatenated, are exactly the bytes pushed.                      *)
(***************************************************************************)
C7_RoundTrip == flushed => ConcatBytes(segments) = pushed

\* A flushed run of several pushes that cut an escape sequence and ended
\* inside another one.
C7_Witness ==
    /\ flushed
    /\ pushed = <<Digit0, ESC, LBracket, Digit0>>
    /\ Len(segments) = 2
    /\ lastPush = <<Segment(SegmentEscape, <<ESC, LBracket, Digit0>>)>>

(***************************************************************************)
(* C8.  An escape sequence cut at any byte position across Push calls is   *)
(* returned only when its terminating byte arrives, as one ESCAPE segment  *)
(* holding the whole sequence: at every point the ESCAPE segments returned *)
(* so far are those a single Push of all bytes so far returns.             *)
(***************************************************************************)
C8_EscapeChunking ==
    ~flushed =>
        OfKind(segments, SegmentEscape)
            = OfKind(Push(NewTokenizer, pushed).segs, SegmentEscape)

\* ESC [ 0 was pushed, then m: the second push returned the one segment.
C8_Witness ==
    /\ ~flushed
    /\ pushed = <<ESC, LBracket, Digit0, LetterM>>
    /\ lastPush = <<Segment(SegmentEscape, <<ESC, LBracket, Digit0, LetterM>>)>>
    /\ segments = lastPush

(***************************************************************************)
(* What the sink has received, flattened.                                  *)
(***************************************************************************)
RECURSIVE SinkBytes(_)
\* The bytes of the writes, in order.
SinkBytes(out) ==
    IF out = <<>> THEN <<>> ELSE Head(out).bytes \o SinkBytes(Tail(out))

RECURSIVE SinkPos(_)
\* The input positions the bytes of the writes stand for, in order.
SinkPos(out) ==
    IF out = <<>> THEN <<>> ELSE Head(out).pos \o SinkPos(Tail(out))

\* The input positions whose byte the sink has received as it was.
RawOut(out) == {SinkPos(out)[i] : i \in 1..Len(SinkPos(out))} \ (-MaxStreamLen..0)

\* The positions of input bytes in the order the sink received them, a
\* replaced byte counting as the byte it replaces.
SinkOrder(out) ==
    LET ps == SelectSeq(SinkPos(out), LAMBDA p : p # 0)
    IN  [i \in 1..Len(ps) |-> IF ps[i] < 0 THEN 0 - ps[i] ELSE ps[i]]

\* The stream as NewStream returned it.
Fresh ==
    [World EXCEPT !.s.tokenizer = NewTokenizer, !.s.buffer = <<>>,
                  !.s.bufPos = <<>>, !.s.consumed = 0, !.s.nextID = 0,
                  !.s.given = <<>>,
                  !.s.lastStatus = ZeroTime, !.s.altScreen = FALSE,
                  !.out = <<>>, !.rep = {}, !.esc = <<>>]

\* The longest span the detector finds in the text of B.
LongestSpan(B) ==
    LET r == Push(NewTokenizer, B)
        found == Find(PlainBytes(r.segs))
        lens == {found[i].End - found[i].Start : i \in 1..Len(found)} \cup {0}
    IN  CHOOSE n \in lens : \A m \in lens : m <= n

(***************************************************************************)
(* C1.  In the windowed regime no byte inside a match the detector has     *)
(* reported on the rolling buffer is ever written to the sink as it was:   *)
(* not by the emit step that saw the match, not by a later emit step, not  *)
(* by the final flush.                                                     *)
(***************************************************************************)
C1_ReportedNeverRaw ==
    stream.windowSize > 0 => reported \cap RawOut(sink) = {}

(***************************************************************************)
(* C4.  In both regimes every ESCAPE segment the tokenizer has returned is *)
(* in the sink exactly once, as one write of exactly its bytes, and none   *)
(* of its bytes is part of any other write.                                *)
(***************************************************************************)
C4_EscapesIntact ==
    \A k \in 1..Len(escSeen) :
        LET e == escSeen[k]
            own == {i \in 1..Len(sink) :
                       sink[i].pos = e.pos /\ sink[i].bytes = e.bytes}
        IN  /\ Cardinality(own) = 1
            /\ \A i \in (1..Len(sink)) \ own :
                   \A j \in 1..Len(sink[i].pos) :
                       \A p \in 1..Len(e.pos) :
                           sink[i].pos[j] # e.pos[p]
                           /\ sink[i].pos[j] # 0 - e.pos[p]

\* The unbuffered stream was closed after K=s and a lone ESC: the secret is
\* replaced, and the escape the tokenizer held is in the sink.
C4_Witness ==
    /\ closed
    /\ stream.windowSize = 0
    /\ input = <<LetterK, EqualsSign, LetterS, ESC>>
    /\ escSeen = <<[bytes |-> <<ESC>>, pos |-> <<4>>]>>
    /\ SinkBytes(sink) = <<LetterK, EqualsSign, HexNibble, ESC>>

(***************************************************************************)
(* C5.  The sink receives the input in input order, up to masking and      *)
(* inserted status lines: no byte is written before a byte that preceded   *)
(* it in the input, be it TEXT held in the rolling window when an ESCAPE   *)
(* segment is written, or buffered TEXT when the tokenizer's trailing      *)
(* partial escape is written on close.                                     *)
(***************************************************************************)
C5_InputOrder ==
    \A i, j \in 1..Len(SinkOrder(sink)) :
        i < j => SinkOrder(sink)[i] < SinkOrder(sink)[j]

(***************************************************************************)
(* C6.  When the rolling window is at least as large as the longest span   *)
(* the detector finds in the input, the bytes the sink has received after  *)
(* close are those it receives from one Write of the whole input followed  *)
(* by close, however the input was cut into writes.                        *)
(***************************************************************************)
C6_ChunkingInvariance ==
    (closed /\ stream.windowSize >= LongestSpan(input)) =>
        SinkBytes(sink) = SinkBytes(Close(Write(Fresh, input)).out)

(***************************************************************************)
(* C2.  The label of every record stored in the cache is taken only from   *)
(* bytes of the match's line that precede match.start: it shares no byte   *)
(* with the span [match.start, match.end).                                 *)
(***************************************************************************)
C2_LabelBeforeMatch ==
    \A i \in 1..Len(cache.lru) :
        \A l \in cache.lru[i].labelAt :
            \A m \in cache.lru[i].matchAt : l < m

(***************************************************************************)
(* C3.  Whatever the request and the state of the cache, the response the  *)
(* server writes holds no byte of the original of a record: the label it   *)
(* carries for a record shares no byte with that record's original, which  *)
(* goes to the copy callback alone.                                        *)
(***************************************************************************)
C3_NoOriginalOnWire ==
    \A i \in 1..Len(resp.about) :
        resp.about[i].labelAt \cap resp.about[i].matchAt = {}

\* The resolved path of the child matches an entry of the enabled
\* allowlist: a pattern with a slash is matched against the path, any other
\* against its last element.
MatchesAllowlist ==
    LET resolved == IF cmd.lookPath # <<>> THEN cmd.lookPath ELSE cmd.argv0
        entries == config.AllowlistCommands
    IN  /\ config.AllowlistEnabled
        /\ \E i \in 1..Len(entries) :
              pathMatch(entries[i],
                        IF Contains(entries[i], <<Slash>>) THEN resolved
                        ELSE Base(resolved))

(***************************************************************************)
(* C9.  When mode is strict and disable_copy_original is set, in every     *)
(* state of a session no cache exists, no IPC server listens,              *)
(* SECRETTY_SOCKET has not been added to the child's environment, and the  *)
(* stream has stored no copy of matched bytes.                             *)
(***************************************************************************)
C9_StrictNoCopies ==
    (config.Mode = "strict" /\ config.DisableCopyOriginal) =>
        /\ ~stateCache
        /\ ~stream.hasCache
        /\ ~stream.cacheOn
        /\ ~ipc
        /\ "SECRETTY_SOCKET" \notin envAdded
        /\ puts = 0
        /\ cache.lru = <<>>

\* A strict session with copying configured but disabled by strict mode has
\* ended; its stream saw secrets and replaced them.
C9_Witness ==
    /\ config.Mode = "strict"
    /\ config.DisableCopyOriginal
    /\ config.CopyWithoutRender
    /\ pc = "done"
    /\ output = "stream"
    /\ reported # {}
    /\ HexNibble \in {SinkBytes(sink)[i] : i \in 1..Len(SinkBytes(sink))}

(***************************************************************************)
(* C10.  When the child command matches the allowlist, the session runs    *)
(* with redaction bypassed: child output goes to host stdout as it is, no  *)
(* record is put into the cache, and no IPC server is started.             *)
(***************************************************************************)
C10_AllowlistBypass ==
    (MatchesAllowlist /\ pc \in {"running", "done"}) =>
        /\ output = "stdout"
        /\ \A i \in 1..Len(sink) : sink[i].kind = "direct"
        /\ SinkBytes(sink) = input
        /\ puts = 0
        /\ cache.lru = <<>>
        /\ ~ipc
        /\ "SECRETTY_SOCKET" \notin envAdded

\* A session whose command is on the allowlist, with a cache in the state,
\* has ended after its child printed a secret.
C10_Witness ==
    /\ MatchesAllowlist
    /\ stateCache
    /\ pc = "done"
    /\ writes = MaxSessWrites
    /\ Contains(SinkBytes(sink), <<LetterK, EqualsSign, LetterS>>)

(***************************************************************************)
(* C11.  Once the child has exited, RunCommand eventually returns, under   *)
(* fair scheduling of the supervisor and of the output mover: the receive  *)
(* from errCh never blocks for ever.                                       *)
(***************************************************************************)
C11_RunReturns == (child.state = "exited") ~> (runPc = "returned")

\* What the run is to return: 1 when a step of the start fails, the exit
\* code of a child that exited, 128 + N for a child that signal N killed.
ExpectedCode ==
    IF runFail # "none" THEN 1
    ELSE IF child.how.kind = "exit" THEN child.how.n
    ELSE 128 + child.how.n

(***************************************************************************)
(* C12.  The code RunCommand returns is the child's exit code when the     *)
(* child exited (0 included), 128 + N when signal N killed it, and 1 when  *)
(* the PTY could not be allocated or the child could not be started.       *)
(***************************************************************************)
C12_ExitCode == runPc = "returned" => runResult.code = ExpectedCode

\* RunCommand has returned 137 for a child that SIGKILL killed, with a core
\* flag in the wait status.
C12_Witness ==
    /\ runPc = "returned"
    /\ child.how = [kind |-> "signal", n |-> 9, core |-> TRUE]
    /\ runResult = [code |-> 137, err |-> FALSE]

(***************************************************************************)
(* C13.  After any sequence of Put, Get, GetLast, SetTTL and SetMaxEntries *)
(* the cache never holds more records than its current maxEntries.         *)
(***************************************************************************)
C13_Bounded == Len(cache.lru) <= cache.maxEntries

\* Two records that have not expired were put under two IDs and the cache,
\* of one entry, holds the second alone.
C13_Witness ==
    /\ Len(putLog) = 2
    /\ putLog[1].ID # putLog[2].ID
    /\ \A i \in 1..2 : clock < putLog[i].at + putLog[i].ttl
    /\ cache.maxEntries = 1
    /\ Len(cache.lru) = 1
    /\ cache.lru[1].ID = putLog[2].ID

\* The calls of Put, by their place in putLog, that stored the record now
\* known under its ID: a later Put of the same ID replaces the record.
LatestPuts ==
    {i \in 1..Len(putLog) :
        \A j \in (i + 1)..Len(putLog) : putLog[j].ID # putLog[i].ID}

\* The cache holds a record with this ID: it has not been evicted.
Holds(id) == \E i \in 1..Len(cache.lru) : cache.lru[i].ID = id

\* The record of call i of Put has not expired: the time is before its
\* expires_at = created_at + ttl.
Unexpired(i) == clock < putLog[i].at + putLog[i].ttl

(***************************************************************************)
(* C14.  After put(r) with ttl > 0 and original bytes, get(r.id) returns r *)
(* with the same original bytes if and only if the time is strictly before *)
(* r.expires_at and r has not been evicted; from expires_at on, get        *)
(* returns not found.                                                      *)
(***************************************************************************)
C14_PutGetRoundTrip ==
    \A i \in LatestPuts :
        LET got == Get(cache, putLog[i].ID, clock)
        IN  /\ got.ok <=> (Unexpired(i) /\ Holds(putLog[i].ID))
            /\ got.ok => got.rec.Original = putLog[i].Original

(***************************************************************************)
(* C15.  After any sequence of Put, Get and GetLast, GetLast returns the   *)
(* record that has not expired and whose Put was the most recent, and      *)
(* returns not found exactly when no record that has not expired exists.   *)
(***************************************************************************)
C15_GetLastMostRecentPut ==
    LET live == {i \in LatestPuts : Unexpired(i) /\ Holds(putLog[i].ID)}
        got == GetLast(cache, clock)
    IN  /\ got.ok <=> live # {}
        /\ got.ok =>
               \A i \in live :
                   (\A j \in live : j <= i) => got.rec.ID = putLog[i].ID

\* The records of the cache that a request looks up and that have not
\* expired, in the order of the cache.
Looked(req) ==
    LET live == SelectSeq(cache.lru, LAMBDA r : ~Expired(r, clock))
    IN  IF ~req.valid THEN <<>>
        ELSE IF req.Op = "copy-last" THEN live
        ELSE IF req.Op = "copy-id" /\ req.ID # 0
        THEN SelectSeq(live, LAMBDA r : r.ID = req.ID)
        ELSE <<>>

\* The response names the record: its id, rule_name, type and label.
Names(r, rec) ==
    /\ r.ID = rec.ID
    /\ r.RuleName = rec.RuleName
    /\ r.Type = rec.Type
    /\ r.Label = rec.Label

\* What the claim says of the answer h to a request: the callback is
\* called iff the lookup finds a record, with its original; the answer is
\* ok:true with the record's names iff the callback succeeded, ok:false
\* with one of the five errors else.
CopyOutcome(h, req, copyErr) ==
    /\ h.copied # <<>> <=> Looked(req) # <<>>
    /\ h.copied # <<>> => h.copied = Looked(req)[1].Original
    /\ h.resp.OK <=> (h.copied # <<>> /\ copyErr = "")
    /\ h.resp.OK => Names(h.resp, Looked(req)[1])
    /\ ~h.resp.OK =>
           h.resp.Error =
               IF h.copied # <<>> THEN copyErr
               ELSE IF req.Op = "copy-last" THEN "no secrets cached"
               ELSE IF req.Op # "copy-id" THEN "unknown operation"
               ELSE IF req.ID = 0 THEN "missing id"
               ELSE "secret not found"

C17_FreshIDs ==
    LET g == stream.given
    IN  (stream.includeID \/ stream.hasCache) =>
            /\ \A i \in 1..Len(g) : g[i].ID = i
            /\ \A i, j \in 1..Len(g) : i < j => g[i].at < g[j].at
            /\ stream.nextID = Len(g)

\* Two lines with a secret each through a window that holds one line: the
\* first secret is emitted by a write while the second is held back, the
\* second by the final flush.
C17_Witness ==
    /\ closed
    /\ stream.includeID
    /\ stream.windowSize = 4
    /\ stream.given = <<[ID |-> 1, at |-> 3], [ID |-> 2, at |-> 7]>>
    /\ reported = {3, 7}

(***************************************************************************)
(* C18.  Whatever candidates the regex pass and the typed pass produce on  *)
(* a text, the list Find returns is ordered by Start ascending, its spans  *)
(* do not overlap, and every span has 0 <= Start < End <= len(text).       *)
(***************************************************************************)
C18_FindOrdered ==
    findPc = "done" =>
        /\ \A i \in 1..Len(findOut) :
               /\ 0 <= findOut[i].Start
               /\ findOut[i].Start < findOut[i].End
               /\ findOut[i].End <= Len(findText)
        /\ \A i, j \in 1..Len(findOut) :
               i < j => /\ findOut[i].Start < findOut[j].Start
                        /\ findOut[i].End <= findOut[j].Start

\* Three candidates, each overlapping the next, handed over out of order:
\* the sweep has replaced one and has kept two that touch.
C18_Witness ==
    /\ findPc = "done"
    /\ Len(findCands) = 3
    /\ findCands[1].match.Start > findCands[2].match.Start
    /\ \E i, j \in 1..3 :
          /\ findCands[i].match.Start < findCands[j].match.Start
          /\ findCands[j].match.Start < findCands[i].match.End
          /\ findCands[j].match.RuleName # findCands[i].match.RuleName
    /\ Len(findOut) = 2
    /\ findOut[1].End = findOut[2].Start
    /\ findOut[1].RuleName = "evm_private_key"

\* The ruleset of the rule or the detector of the name a match carries.
RulesetOf(cfg, name) ==
    LET all == cfg.Rules \o cfg.TypedDetectors
    IN  all[CHOOSE i \in 1..Len(all) : all[i].Name = name].Ruleset

(***************************************************************************)
(* C19.  Find returns no match of a regex rule or a typed detector whose   *)
(* ruleset the configuration does not enable: with rulesets.web3.enabled   *)
(* false, PRIVATE_KEY=0x<64 hex> yields no match.                          *)
(***************************************************************************)
C19_DisabledRulesetSilent ==
    findPc = "done" =>
        \A i \in 1..Len(findOut) :
            RulesetEnabled(RulesetOf(findCfg, findOut[i].RuleName),
                           findCfg.Rulesets)

\* The regex rule of the name a match carries, if it has one.
RegexRulesNamed(cfg, name) ==
    {cfg.Rules[i] : i \in {k \in 1..Len(cfg.Rules) : cfg.Rules[k].Name = name}}

(***************************************************************************)
(* C20.  A match of a regex rule that has context keywords is reported     *)
(* only if one of the keywords, lower-cased, occurs within 64 bytes before *)
(* or after the match.                                                     *)
(***************************************************************************)
C20_KeywordGatesRegex ==
    findPc = "done" =>
        \A i \in 1..Len(findOut) :
            \A rule \in RegexRulesNamed(findCfg, findOut[i].RuleName) :
                rule.ContextKeywords # <<>> =>
                    hasContextKeyword(findText, findOut[i].Start,
                                      findOut[i].End,
                                      lowerKeywords(rule.ContextKeywords))

(***************************************************************************)
(* C21.  A match produced by a regex rule carries the secret_type the      *)
(* configuration gives that rule.                                          *)
(***************************************************************************)
C21_RuleSecretType ==
    findPc = "done" =>
        \A i \in 1..Len(findOut) :
            \A rule \in RegexRulesNamed(findCfg, findOut[i].RuleName) :
                findOut[i].SecretType = rule.SecretType

\* The action Redactor.replacement has taken for the match handed to it.
MaskAction ==
    IF maskIn.match.Action = "" THEN maskCfg.DefaultAction
    ELSE maskIn.match.Action

\* The span has gone through hexRandomSameLength.
MaskHexBranch ==
    maskIn.match.SecretType = "EVM_PK" \/ looksHex(maskIn.original)

(***************************************************************************)
(* C22.  Under the style block a masked span is replaced by as many bytes  *)
(* as it has, whatever its content and the block_char, and                 *)
(* hex_random_same_length keeps a leading 0x or 0X as it is.               *)
(***************************************************************************)
C22_SameByteLength ==
    (maskPc = "done" /\ MaskAction = "mask") =>
        /\ Len(maskOut) = Len(maskIn.original)
        /\ (MaskHexBranch /\ has0xPrefix(maskIn.original)) =>
               SubSeq(maskOut, 1, 2) = SubSeq(maskIn.original, 1, 2)

(***************************************************************************)
(* C23.  Whatever the span, the action (mask or placeholder) and the       *)
(* outcome of the random source, the replacement does not contain the      *)
(* bytes of the span.                                                      *)
(***************************************************************************)
C23_NoOriginalInReplacement ==
    (maskPc = "done" /\ MaskAction \in {"mask", "placeholder"}) =>
        ~Contains(maskOut, maskIn.original)

ColourEscape == <<ESC, LBracket, LetterM>>

\* The lines the child prints: the label, the value of two or three bytes,
\* with or without an escape before and after it, and the end of the line.
SplitLines ==
    {<<LetterK, EqualsSign>> \o before \o value \o after \o <<Newline>> :
        before \in {<<>>, ColourEscape},
        after \in {<<>>, ColourEscape},
        value \in {<<LetterS, LetterS>>, <<LetterS, LetterS, LetterS>>}}

\* The positions of the bytes of the value in a line.
ValueAt(line) == {p \in 1..Len(line) : line[p] = LetterS}

\* The positions of the bytes of the label in a line.
LabelAt(line) == {p \in 1..Len(line) : line[p] \in {LetterK, EqualsSign}}

SplitInit ==
    /\ TokIdle
    /\ ExtIdle
    /\ SessIdle
    /\ \E status \in BOOLEAN :
          stream = NewStream(StreamCfg(0, status), FALSE)
    /\ sink = <<>>
    /\ cache = NoCache
    /\ clock = 1
    /\ puts = 0
    /\ input = <<>>
    /\ pending = <<>>
    /\ closed = FALSE
    /\ escSeen = <<>>
    /\ reported = {}

\* The child writes the next byte of its line to the PTY.
SplitProduce ==
    /\ ~closed
    /\ \E line \in SplitLines :
          LET sofar == input \o pending
          IN  /\ Len(sofar) < Len(line)
              /\ SubSeq(line, 1, Len(sofar)) = sofar
              /\ pending' = Append(pending, line[Len(sofar) + 1])
    /\ UNCHANGED <<extVars, tokVars, stream, sink, cache, clock, puts, input,
                   closed, escSeen, reported, sessVars>>

\* The output mover hands what it read to Stream.Write: the first read ends
\* after the first byte of the value, the second at the end of the line.
SplitWrite ==
    /\ IF input = <<>>
       THEN /\ pending # <<>>
            /\ ValueAt(pending) = {Len(pending)}
       ELSE input \o pending \in SplitLines
    /\ StrWrite

SplitNext == SplitProduce \/ SplitWrite \/ StrClose

SpecSplit == SplitInit /\ [][SplitNext]_vars

(***************************************************************************)
(* C25.  In the unbuffered regime, when a line KEY=<value> with colour     *)
(* escapes around the value has gone through the stream in two writes cut  *)
(* inside the value, no byte of the value is in the sink as it was, and    *)
(* every byte of the label is.                                             *)
(***************************************************************************)
C25_SplitValueRedacted ==
    (stream.windowSize = 0 /\ input \in SplitLines /\ pending = <<>>) =>
        LET raw == {SinkPos(sink)[i] : i \in 1..Len(SinkPos(sink))}
        IN  /\ ValueAt(input) \cap raw = {}
            /\ LabelAt(input) \subseteq raw

(***************************************************************************)
(* SpecUTF8: the stream of SpecStream fed text with multi-byte code        *)
(* points, in writes cut anywhere, also inside a code point.               *)
(***************************************************************************)
\* The code points the child prints: a letter, U+03BB and U+2588.
UTF8Runes == {<<LetterS>>, <<206, 187>>, BlockChar}

\* The bytes of the code point that text ends in the middle of, none when it
\* ends at a boundary.
OpenRune(text) ==
    LET starts == {k \in 1..Len(text) : RuneStart(text[k])}
        last == CHOOSE k \in starts : \A j \in starts : j <= k
    IN  IF starts = {} THEN <<>>
        ELSE IF \E r \in UTF8Runes : r = SubSeq(text, last, Len(text))
             THEN <<>>
             ELSE SubSeq(text, last, Len(text))

\* The child writes the next byte of its text, which is valid UTF-8, to the
\* PTY.
UTF8Produce ==
    /\ ~closed
    /\ Len(input) + Len(pending) < MaxUTF8Len
    /\ LET open == OpenRune(input \o pending)
       IN  \E r \in UTF8Runes :
              /\ Len(open) < Len(r)
              /\ SubSeq(r, 1, Len(open)) = open
              /\ pending' = Append(pending, r[Len(open) + 1])
    /\ UNCHANGED <<extVars, tokVars, stream, sink, cache, clock, puts, input,
                   closed, escSeen, reported, sessVars>>

UTF8Next == UTF8Produce \/ StrWrite \/ StrClose

SpecUTF8 == StrInit /\ [][UTF8Next]_vars

\* The bytes end inside a multi-byte sequence: a lead byte of a sequence of
\* n bytes is followed to the end by fewer than n - 1 continuation bytes.
EndsMidRune(bytes) ==
    \E k \in 1..Len(bytes) :
        /\ bytes[k] >= 192
        /\ \A j \in (k + 1)..Len(bytes) :
               bytes[j] >= 128 /\ bytes[j] < 192
        /\ Len(bytes) - k + 1 <
               (IF bytes[k] >= 240 THEN 4 ELSE IF bytes[k] >= 224 THEN 3 ELSE 2)

(***************************************************************************)
(* C26.  In both regimes, as long as the stream is open, no write to the   *)
(* sink ends inside a multi-byte UTF-8 sequence: a code point whose bytes  *)
(* have not all arrived is withheld.                                       *)
(***************************************************************************)
C26_NoPartialCodePoint ==
    ~closed => \A i \in 1..Len(sink) : ~EndsMidRune(sink[i].bytes)

\* The same in the windowed regime alone.
C26_WindowedNoPartialCodePoint ==
    (~closed /\ stream.windowSize > 0) =>
        \A i \in 1..Len(sink) : ~EndsMidRune(sink[i].bytes)

(***************************************************************************)
(* internal/ptywrap: forwardSignals.  signal.Notify puts the signals the   *)
(* process receives into the channel ch, and drops a signal when ch is     *)
(* full; a goroutine takes them out one by one.                            *)
(***************************************************************************)
\* The signals forwardSignals asks to be notified of.
NotifiedSignals == {"SIGWINCH", "SIGINT", "SIGTERM", "SIGQUIT", "SIGTSTP"}

\* A controlByteForSignal that knows no byte for SIGTSTP.
controlByteForSignalNoSusp(sig) ==
    CASE sig = "SIGINT" -> [b |-> 3, ok |-> TRUE]
      [] sig = "SIGQUIT" -> [b |-> 28, ok |-> TRUE]
      [] OTHER -> [b |-> 0, ok |-> FALSE]

controlByteForSignal(sig) ==
    CASE sig = "SIGINT" -> [b |-> 3, ok |-> TRUE]
      [] sig = "SIGQUIT" -> [b |-> 28, ok |-> TRUE]
      [] sig = "SIGTSTP" -> [b |-> 26, ok |-> TRUE]
      [] OTHER -> [b |-> 0, ok |-> FALSE]

\* What one turn of the loop of forwardSignals does with sig: the byte it
\* writes to ptmx, the signal it sends to proc, whether it resizes the PTY.
\* ptmx is never nil here: RunCommand has returned before when it has none.
forwardSignal(sig, resize) ==
    LET none == [write |-> <<>>, signal |-> <<>>, resize |-> FALSE]
        c == controlByteForSignal(sig)
    IN  IF sig = "SIGWINCH" THEN [none EXCEPT !.resize = resize]
        ELSE IF sig \in {"SIGINT", "SIGQUIT", "SIGTSTP"} /\ c.ok
             THEN [none EXCEPT !.write = <<c.b>>]
             ELSE [none EXCEPT !.signal = <<sig>>]

(***************************************************************************)
(* SpecSignals: RunCommand from the call of forwardSignals on.  Signals    *)
(* arrive while the child runs and while RunCommand shuts down; the        *)
(* supervisor waits for the child, cancels the context and closes the PTY  *)
(* master; stopSignals runs when RunCommand returns.                       *)
(***************************************************************************)
SigInit ==
    /\ TokIdle
    /\ StreamIdle
    /\ SessIdle
    /\ CacheIdle
    /\ FindIdle
    /\ MaskIdle
    /\ runPc = "wait"
    /\ moverPc = "none"
    /\ ctxDone = FALSE
    /\ errCh = <<>>
    /\ ptmxClosed = FALSE
    /\ outClosed = FALSE
    /\ child = [state |-> "running", how |-> NoEnd, status |-> 0]
    /\ ptyData = 0
    /\ moved = 0
    /\ runFail = "none"
    /\ runResult = NoResult
    /\ sigCh = <<>>
    /\ sigTaken = <<>>
    /\ ptmxIn = <<>>
    /\ procSignals = <<>>
    /\ resizes = 0
    /\ sigOn = TRUE
    /\ isTTY \in BOOLEAN
    /\ hostTerm = (IF isTTY THEN "raw" ELSE "cooked")
    /\ restoreLog = <<>>
    /\ LockIdle
    /\ InIdle

\* The process receives a signal: the runtime sends it on ch without
\* blocking.
SigArrive ==
    /\ sigOn
    /\ Len(sigTaken) + Len(sigCh) < MaxSignals
    /\ \E sig \in NotifiedSignals :
          sigCh' = IF Len(sigCh) < SigChCap THEN Append(sigCh, sig) ELSE sigCh
    /\ UNCHANGED <<tokVars, streamVars, sessVars, runVars, cacheVars,
                   findVars, maskVars, termVars, lockVars, inVars, sigTaken, ptmxIn,
                   procSignals, resizes, sigOn>>

\* for sig := range ch: one turn of the loop.  A write to a closed ptmx and
\* a signal to a child that has been waited for fail, and the errors are
\* dropped.
SigHandle ==
    /\ sigCh # <<>>
    /\ LET sig == Head(sigCh)
           f == forwardSignal(sig, isTTY)
       IN  /\ sigCh' = Tail(sigCh)
           /\ sigTaken' = Append(sigTaken, sig)
           /\ ptmxIn' = IF ptmxClosed THEN ptmxIn ELSE ptmxIn \o f.write
           /\ procSignals' = IF runPc = "wait" THEN procSignals \o f.signal
                             ELSE procSignals
           /\ resizes' = IF f.resize /\ ~ptmxClosed THEN resizes + 1
                         ELSE resizes
    /\ UNCHANGED <<tokVars, streamVars, sessVars, runVars, cacheVars,
                   findVars, maskVars, termVars, lockVars, inVars, sigOn>>

\* stopSignals, deferred to the return of RunCommand: signal.Stop(ch) and
\* close(ch); the goroutine ends when it has taken what is left in ch.
SigStop ==
    /\ sigOn
    /\ ptmxClosed
    /\ sigOn' = FALSE
    /\ UNCHANGED <<tokVars, streamVars, sessVars, runVars, cacheVars,
                   findVars, maskVars, termVars, lockVars, inVars, sigCh, sigTaken, ptmxIn,
                   procSignals, resizes>>

SigNext ==
    SigArrive \/ SigHandle \/ SigStop \/ ChildExit \/ RunWait \/ RunCancel
    \/ RunClosePTY

SpecSignals == SigInit /\ [][SigNext]_vars

\* The signals of a sequence that are in a set, in order.
SignalsIn(seq, set) == SelectSeq(seq, LAMBDA g : g \in set)

(***************************************************************************)
(* C27.  While the session runs (the child has not ended and the PTY       *)
(* master is open), the signals the supervisor has received have had these *)
(* effects and no other: each SIGINT, SIGQUIT and SIGTSTP one write of the *)
(* byte 0x03, 0x1c, 0x1a to the PTY master, in the order received, and no  *)
(* signal to the child; each SIGTERM one signal to the child; each         *)
(* SIGWINCH one propagation of the window size when stdin is a terminal,   *)
(* and nothing to the child.                                               *)
(***************************************************************************)
C27_SignalEffects ==
    (child.state = "running" /\ ~ptmxClosed) =>
        LET keys == SignalsIn(sigTaken, {"SIGINT", "SIGQUIT", "SIGTSTP"})
        IN  /\ ptmxIn = [i \in 1..Len(keys) |->
                           CASE keys[i] = "SIGINT" -> 3
                             [] keys[i] = "SIGQUIT" -> 28
                             [] keys[i] = "SIGTSTP" -> 26]
            /\ procSignals = SignalsIn(sigTaken, {"SIGTERM"})
            /\ resizes = IF isTTY
                         THEN Len(SignalsIn(sigTaken, {"SIGWINCH"})) ELSE 0

\* With the child running, the supervisor has received SIGTSTP, SIGTERM and
\* SIGWINCH: 0x1a went to the PTY master, SIGTERM to the child, the window
\* size to the PTY.
C27_Witness ==
    /\ child.state = "running"
    /\ ~ptmxClosed
    /\ isTTY
    /\ sigTaken = <<"SIGTSTP", "SIGTERM", "SIGWINCH">>
    /\ ptmxIn = <<26>>
    /\ procSignals = <<"SIGTERM">>
    /\ resizes = 1

(***************************************************************************)
(* internal/ptywrap: the host terminal.                                    *)
(***************************************************************************)
\* The steps that can fail in a run whose output is a stream: those of
\* RunFailures, and getTermios and setTermios in makeRawWithSignals.
ShutFailures == RunFailures \cup {"rawGetTermios", "rawSetTermios"}

\* A makeRawWithSignals that returns the error of getTermios or setTermios
\* and leaves the terminal as term.MakeRaw put it.
makeRawWithSignalsLeavingRaw(tty, fail) ==
    IF ~tty THEN [err |-> FALSE, raw |-> FALSE, restored |-> 0]
    ELSE IF fail = "makeRaw" THEN [err |-> TRUE, raw |-> FALSE, restored |-> 0]
    ELSE IF fail \in {"rawGetTermios", "rawSetTermios"}
         THEN [err |-> TRUE, raw |-> TRUE, restored |-> 0]
         ELSE [err |-> FALSE, raw |-> TRUE, restored |-> 0]

\* makeRawWithSignals on a descriptor that is a terminal or not: whether it
\* returns an error, whether the terminal is raw when it returns (it then
\* returns a restore function), and the calls of term.Restore it has made.
makeRawWithSignals(tty, fail) ==
    IF ~tty THEN [err |-> FALSE, raw |-> FALSE, restored |-> 0]
    ELSE IF fail = "makeRaw" THEN [err |-> TRUE, raw |-> FALSE, restored |-> 0]
    ELSE IF fail \in {"rawGetTermios", "rawSetTermios"}
         THEN [err |-> TRUE, raw |-> FALSE, restored |-> 1]
         ELSE [err |-> FALSE, raw |-> TRUE, restored |-> 0]

\* A call of term.Restore, with what RunCommand had done when it was made.
RestoreCall == [ptmx |-> ptmxClosed, mover |-> moverPc, recv |-> runPc = "recv"]

\* The deferred restore() at a return of RunCommand: it is there when
\* maybeMakeRaw returned a restore function.
DeferredRestore ==
    IF hostTerm = "raw"
    THEN /\ hostTerm' = "cooked"
         /\ restoreLog' = Append(restoreLog, RestoreCall)
    ELSE UNCHANGED <<hostTerm, restoreLog>>

(***************************************************************************)
(* SpecShutdown: one call of RunCommand with RawMode set and a redaction   *)
(* stream as its output, as runWithPTY makes it.  The supervisor and the   *)
(* output mover of SpecRun, with the host terminal, the deferred calls of  *)
(* RunCommand and the stream the mover writes to and the supervisor        *)
(* closes.                                                                 *)
(***************************************************************************)
\* What one read of the PTY master returns.
ShutChunks == {<<LetterS>>, <<LetterS, Newline>>}

\* Values of rolling_window_bytes: the unbuffered regime and a window that
\* holds a chunk.
ShutWindows == {0, 2}

ShutInit ==
    /\ TokIdle
    /\ SessIdle
    /\ CacheIdle
    /\ FindIdle
    /\ MaskIdle
    /\ \E window \in ShutWindows :
          stream = NewStream(StreamCfg(window, FALSE), FALSE)
    /\ sink = <<>>
    /\ cache = NoCache
    /\ clock = 1
    /\ puts = 0
    /\ input = <<>>
    /\ pending = <<>>
    /\ closed = FALSE
    /\ escSeen = <<>>
    /\ reported = {}
    /\ runPc = "makeRaw"
    /\ moverPc = "none"
    /\ ctxDone = FALSE
    /\ errCh = <<>>
    /\ ptmxClosed = FALSE
    /\ outClosed = FALSE
    /\ child = [state |-> "none", how |-> NoEnd, status |-> 0]
    /\ ptyData = 0
    /\ moved = 0
    /\ isTTY \in BOOLEAN
    /\ runFail \in ShutFailures
    /\ runFail \in {"makeRaw", "rawGetTermios", "rawSetTermios", "setTermios"}
           => isTTY
    /\ runResult = NoResult
    /\ sigCh = <<>>
    /\ sigTaken = <<>>
    /\ ptmxIn = <<>>
    /\ procSignals = <<>>
    /\ resizes = 0
    /\ sigOn = FALSE
    /\ hostTerm = "cooked"
    /\ restoreLog = <<>>
    /\ LockIdle
    /\ InIdle

\* restore, err := maybeMakeRaw(opts.RawMode && isTTY), and the return of
\* RunCommand when it fails.
ShutMakeRaw ==
    /\ runPc = "makeRaw"
    /\ LET r == makeRawWithSignals(isTTY, runFail)
       IN  /\ hostTerm' = IF r.raw THEN "raw" ELSE "cooked"
           /\ restoreLog' = restoreLog
                  \o [i \in 1..r.restored |-> RestoreCall]
           /\ IF r.err
              THEN runPc' = "returned" /\ runResult' = RunFailed
              ELSE runPc' = "startWithPTY" /\ UNCHANGED runResult
    /\ UNCHANGED <<tokVars, streamVars, sessVars, cacheVars, findVars,
                   maskVars, sigVars, lockVars, inVars, isTTY, moverPc, ctxDone, errCh,
                   ptmxClosed, outClosed, child, ptyData, moved, runFail>>

\* ptmx, err := startWithPTY(...), and the return of RunCommand with its
\* deferred restore when it fails.
ShutStartWithPTY ==
    /\ runPc = "startWithPTY"
    /\ IF runFail # "none"
       THEN /\ runPc' = "returned"
            /\ runResult' = RunFailed
            /\ DeferredRestore
            /\ UNCHANGED child
       ELSE /\ runPc' = "go"
            /\ child' = [child EXCEPT !.state = "running"]
            /\ UNCHANGED <<runResult, hostTerm, restoreLog>>
    /\ UNCHANGED <<tokVars, streamVars, sessVars, cacheVars, findVars,
                   maskVars, sigVars, lockVars, inVars, isTTY, moverPc, ctxDone, errCh,
                   ptmxClosed, outClosed, ptyData, moved, runFail>>

\* io.Copy: src.Read returns a chunk.
ShutRead ==
    /\ moverPc = "copy"
    /\ ~ptmxClosed
    /\ ptyData > 0
    /\ ptyData' = ptyData - 1
    /\ \E chunk \in ShutChunks : pending' = chunk
    /\ moverPc' = "write"
    /\ UNCHANGED <<tokVars, sessVars, cacheVars, findVars, maskVars, ptyVars,
                   stream, sink, cache, clock, input, closed, escSeen,
                   reported, puts, runPc, ctxDone, errCh, ptmxClosed,
                   outClosed, child, moved, runFail, runResult>>

\* io.Copy: dst.Write(chunk) is called; the mover is inside Stream.Write.
ShutWriteCall ==
    /\ moverPc = "write"
    /\ moverPc' = "inWrite"
    /\ UNCHANGED <<tokVars, streamVars, sessVars, cacheVars, findVars,
                   maskVars, ptyVars, runPc, ctxDone, errCh, ptmxClosed,
                   outClosed, child, ptyData, moved, runFail, runResult>>

\* io.Copy: dst.Write(chunk) returns.
ShutWriteReturn ==
    /\ moverPc = "inWrite"
    /\ Commit(Write(World, pending))
    /\ input' = input \o pending
    /\ pending' = <<>>
    /\ moved' = moved + 1
    /\ moverPc' = "copy"
    /\ UNCHANGED <<tokVars, sessVars, cacheVars, findVars, maskVars, ptyVars,
                   clock, closed, runPc, ctxDone, errCh, ptmxClosed,
                   outClosed, child, ptyData, runFail, runResult>>

\* _ = closeOutput(out) is called: the supervisor is inside Stream.Close.
ShutCloseCall ==
    /\ runPc = "closeOutput"
    /\ runPc' = "inClose"
    /\ UNCHANGED <<tokVars, streamVars, sessVars, cacheVars, findVars,
                   maskVars, ptyVars, moverPc, ctxDone, errCh, ptmxClosed,
                   outClosed, child, ptyData, moved, runFail, runResult>>

\* closeOutput(out) returns: the stream has flushed.
ShutCloseReturn ==
    /\ runPc = "inClose"
    /\ Commit(Close(World))
    /\ closed' = TRUE
    /\ outClosed' = TRUE
    /\ runPc' = "recv"
    /\ UNCHANGED <<tokVars, sessVars, cacheVars, findVars, maskVars, ptyVars,
                   clock, input, pending, moverPc, ctxDone, errCh,
                   ptmxClosed, child, ptyData, moved, runFail, runResult>>

\* <-errCh, the return of exitCode(waitErr), and the deferred calls, of
\* which restore() is the last.
ShutRecv ==
    /\ runPc = "recv"
    /\ errCh # <<>>
    /\ errCh' = Tail(errCh)
    /\ runResult' = RunReturn(Wait(child.status))
    /\ runPc' = "returned"
    /\ DeferredRestore
    /\ UNCHANGED <<tokVars, streamVars, sessVars, cacheVars, findVars,
                   maskVars, sigVars, lockVars, inVars, isTTY, moverPc, ctxDone, ptmxClosed,
                   outClosed, child, ptyData, moved, runFail>>

ShutSupervisor ==
    \/ ShutMakeRaw
    \/ ShutStartWithPTY
    \/ RunGo
    \/ RunWait
    \/ RunCancel
    \/ RunClosePTY
    \/ ShutCloseCall
    \/ ShutCloseReturn
    \/ ShutRecv

ShutMover ==
    \/ ShutRead
    \/ ShutWriteCall
    \/ ShutWriteReturn
    \/ MoverEnd
    \/ MoverSend
    \/ MoverCancelled

ShutNext == ShutSupervisor \/ ShutMover \/ ChildWrite \/ ChildExit

SpecShutdown == ShutInit /\ [][ShutNext]_vars

\* term.MakeRaw has switched the host terminal to raw mode in this run.
WasRaw == isTTY /\ runFail # "makeRaw"

(***************************************************************************)
(* C28.  When RunCommand has returned after the host terminal was switched *)
(* to raw mode, whether the child ended, the PTY could not be set up or    *)
(* the child could not be started, term.Restore has been called exactly    *)
(* once and the terminal is as it was; on the normal path the call came    *)
(* after ptmx.Close() and after the receive from errCh that waits for the  *)
(* output mover.  A terminal that was never raw is not restored.           *)
(***************************************************************************)
C28_RestoredOnce ==
    runPc = "returned" =>
        /\ hostTerm = "cooked"
        /\ Len(restoreLog) = (IF WasRaw THEN 1 ELSE 0)
        /\ (WasRaw /\ runFail = "none") =>
               /\ restoreLog[1].ptmx
               /\ restoreLog[1].recv
               /\ restoreLog[1].mover = "done"

\* A run on a terminal has returned after its child ended and the mover
\* copied a chunk, and the terminal was restored.
C28_Witness ==
    /\ runPc = "returned"
    /\ runFail = "none"
    /\ isTTY
    /\ moved > 0
    /\ Len(restoreLog) = 1
    /\ hostTerm = "cooked"

\* A run on a terminal has returned because the child could not be started.
C28_WitnessSpawnFailure ==
    /\ runPc = "returned"
    /\ runFail = "start"
    /\ isTTY
    /\ Len(restoreLog) = 1

(***************************************************************************)
(* C29.  The supervisor is never inside Stream.Close while the output      *)
(* mover is inside Stream.Write or holds a chunk it has read and is about  *)
(* to write: no two goroutines are in operations of the stream at once.    *)
(***************************************************************************)
C29_SingleWriter ==
    runPc = "inClose" => moverPc \notin {"write", "inWrite"}

\* The bytes handed to Stream.Write that the sink has received, as they
\* were or replaced.
Delivered ==
    {IF SinkPos(sink)[i] < 0 THEN 0 - SinkPos(sink)[i] ELSE SinkPos(sink)[i] :
        i \in 1..Len(SinkPos(sink))} \ {0}

(***************************************************************************)
(* C30.  When RunCommand has returned after the child ended, every byte    *)
(* the output mover has written into the stream is in the sink, as it was  *)
(* or replaced, and the rolling window is empty: the flush of the stream   *)
(* came after the mover's last Write.                                      *)
(***************************************************************************)
C30_NothingLeftBehind ==
    (runPc = "returned" /\ runFail = "none") =>
        /\ stream.buffer = <<>>
        /\ Delivered = 1..Len(input)

\* The length of the longest match the detector finds in text.
LongestMatch(text) ==
    LET found == Find(text)
        lens == {found[i].End - found[i].Start : i \in 1..Len(found)} \cup {0}
    IN  CHOOSE n \in lens : \A m \in lens : m <= n

(***************************************************************************)
(* C31.  In the windowed regime, after every write the rolling buffer      *)
(* holds at most rolling_window_bytes bytes plus the length of the longest *)
(* match, be it the longest the detector finds in the input so far or in   *)
(* the buffer itself.                                                      *)
(***************************************************************************)
C31_BufferBounded ==
    (stream.windowSize > 0 /\ ~closed) =>
        \/ Len(stream.buffer) <= stream.windowSize + LongestSpan(input)
        \/ Len(stream.buffer) <= stream.windowSize + LongestMatch(stream.buffer)

(***************************************************************************)
(* SpecClamp: the stream of SpecStream fed labels, values and bytes of a   *)
(* single-byte encoding: 0xE9, which begins a three-byte sequence in       *)
(* UTF-8, stands alone before white space.                                 *)
(***************************************************************************)
ClampBytes == {LetterK, EqualsSign, LetterS, 233, Newline}

ClampProduce ==
    /\ ~closed
    /\ Len(input) + Len(pending) < MaxClampLen
    /\ \E b \in ClampBytes : pending' = Append(pending, b)
    /\ UNCHANGED <<extVars, tokVars, stream, sink, cache, clock, puts, input,
                   closed, escSeen, reported, sessVars>>

ClampNext == ClampProduce \/ StrWrite \/ StrClose

SpecClamp == StrInit /\ [][ClampNext]_vars

\* The emit length processText settles on for a buffer: the excess over the
\* window, pulled back by safeEmitLen and then by utf8SafePrefixLen.
FinalEmitLen(buffer, windowSize) ==
    LET excess == IF Len(buffer) > windowSize
                  THEN Len(buffer) - windowSize ELSE 0
    IN  IF excess = 0 THEN 0
        ELSE utf8SafePrefixLen(buffer, safeEmitLen(excess, Find(buffer)))

(***************************************************************************)
(* C32.  In the windowed regime, for the text a write is about to append   *)
(* to the rolling buffer, the emit length processText settles on, after    *)
(* the match clamp and the UTF-8 clamp, is not strictly inside any match   *)
(* the detector finds on that buffer.                                      *)
(***************************************************************************)
C32_EmitLenOutsideMatches ==
    (stream.windowSize > 0 /\ ~closed /\ pending # <<>>) =>
        LET buffer == stream.buffer \o pending
            found == Find(buffer)
            emitLen == FinalEmitLen(buffer, stream.windowSize)
        IN  \A i \in 1..Len(found) :
                ~(found[i].Start < emitLen /\ emitLen < found[i].End)

\* The spans [a.Start, a.End) and [b.Start, b.End) share a byte.
SpansOverlap(a, b) == a.Start < b.End /\ b.Start < a.End

(***************************************************************************)
(* C33.  Whatever candidates the passes produce, when Find has returned,   *)
(* every candidate's span shares a byte with a match of the returned list: *)
(* no detected span is wholly outside the returned matches.                *)
(***************************************************************************)
C33_DroppedAreCovered ==
    findPc = "done" =>
        \A i \in 1..Len(findCands) :
            \E j \in 1..Len(findOut) :
                SpansOverlap(findCands[i].match, findOut[j])

(***************************************************************************)
(* SpecRules: SpecResolve with a second regex rule, token_generic, so that *)
(* two rules can report the same span with the same severity.              *)
(***************************************************************************)
\* findRegexMatches: one hit of the rule token_generic.
ResolveOtherRuleHit ==
    /\ findPc = "regex"
    /\ Len(findCands) < MaxCands
    /\ \E idx \in GroupBounds(findText), severity \in ResolveSeverities :
          /\ ~(idx[1] < 0 \/ idx[2] <= idx[1])
          /\ findCands' = Append(findCands,
                 CandidateOf(idx[1], idx[2], severity, "sourceRegex",
                             "token_generic"))
    /\ UNCHANGED <<tokVars, streamVars, sessVars, runVars, cacheVars,
                   maskVars, ptyVars, findCfg, findText, findOut, findPc>>

RulesNext == ResolveNext \/ ResolveOtherRuleHit

SpecRules == ResolveInit /\ [][RulesNext]_vars

\* The tie-break ordering: a is to be preferred to b.
Preferred(a, b) ==
    \/ a.severity > b.severity
    \/ a.severity = b.severity /\ a.source = "sourceTyped"
       /\ b.source = "sourceRegex"
    \/ a.severity = b.severity /\ a.source = b.source /\ a.length > b.length
    \/ a.severity = b.severity /\ a.source = b.source /\ a.length = b.length
       /\ a.match.Start < b.match.Start

\* What Find returns for the candidates in an order the sort can leave.
ResolvedFrom(sorted) ==
    LET resolved == Sweep(sorted, <<>>)
    IN  [i \in 1..Len(resolved) |-> resolved[i].match]

\* Of two overlapping candidates of which Find returned one and not the
\* other, the returned one is not the one the ordering ranks lower.
C34_KeptIsPreferred ==
    findPc = "done" =>
        \A sorted \in SortedOrders(findCands) :
            LET kept == Sweep(sorted, <<>>)
                isKept(c) == \E k \in 1..Len(kept) : kept[k] = c
            IN  ResolvedFrom(sorted) = findOut =>
                    \A i, j \in 1..Len(findCands) :
                        (/\ SpansOverlap(findCands[i].match,
                                         findCands[j].match)
                         /\ isKept(findCands[i])
                         /\ ~isKept(findCands[j]))
                            => ~Preferred(findCands[j], findCands[i])

\* The list Find returned is the one it returns for every order the
\* candidates can be in after the sort.
C34_OrderIndependent ==
    findPc = "done" =>
        \A sorted \in SortedOrders(findCands) : ResolvedFrom(sorted) = findOut

(***************************************************************************)
(* C34.  When Find has returned: of two overlapping candidates of which    *)
(* one is in the result and the other is not, the one in the result has    *)
(* the higher severity, or at equal severity is the typed one, or then the *)
(* longer, or then the earlier; and the result is the same for every order *)
(* in which the candidates were produced.                                  *)
(***************************************************************************)
C34_TieBreakDecides == C34_KeptIsPreferred /\ C34_OrderIndependent

\* The IDs a client may put next: those of CacheIDs and a new one.
NextPutIDs == CacheIDs \cup {3}

\* The records of the cache a put of id finds that have not expired, the
\* time being strictly before their expires_at, and are not replaced by it.
LiveOthers(id) ==
    SelectSeq(cache.lru, LAMBDA r : r.ID # id /\ clock < r.ExpiresAt)

\* The place of an ID in recency: the smaller, the later its latest access.
RecencyRank(id) == CHOOSE p \in 1..Len(recency) : recency[p] = id

(***************************************************************************)
(* C35.  In every state of the cache, for every record a client may put:   *)
(* when the put makes the number of records that have not expired exceed   *)
(* max_entries, the cache after the put holds the record just put and has  *)
(* lost exactly one of the others, the one whose latest access (put, Get   *)
(* hit or GetLast hit) is the oldest.                                      *)
(***************************************************************************)
C35_EvictsLeastRecent ==
    \A id \in NextPutIDs :
        LET others == LiveOthers(id)
            after == Put(cache, CacheRecord(id, <<LetterS>>), clock).lru
            held(x) == \E j \in 1..Len(after) : after[j].ID = x
            evicted == {i \in 1..Len(others) : ~held(others[i].ID)}
        IN  (cache.ttl > 0 /\ Len(others) + 1 > cache.maxEntries) =>
                /\ held(id)
                /\ Cardinality(evicted) = 1
                /\ \A i \in evicted :
                       \A k \in (1..Len(others)) \ evicted :
                           RecencyRank(others[i].ID) > RecencyRank(others[k].ID)

\* The cache of two entries holds the records 1 and 2, put in this order
\* and not expired; a Get has since found record 1, so that a put of
\* record 3 evicts record 2.
C35_Witness ==
    /\ cache.maxEntries = 2
    /\ cache.ttl > 0
    /\ Len(putLog) = 2
    /\ putLog[1].ID = 1
    /\ putLog[2].ID = 2
    /\ recency = <<1, 2>>
    /\ Len(LiveOthers(3)) = 2
    /\ LET after == Put(cache, CacheRecord(3, <<LetterS>>), clock).lru
       IN  /\ Len(after) = 2
           /\ after[1].ID = 3
           /\ after[2].ID = 1

(***************************************************************************)
(* SpecLock: two goroutines call the operations of one cache at the same   *)
(* time.  A call is a sequence of steps: what the method does before       *)
(* c.mu.Lock(), the Lock, and the body with the deferred Unlock.           *)
(***************************************************************************)
\* The body of Put, from c.mu.Lock() on.
PutLocked(c, record, now) ==
    LET rec == [record EXCEPT !.CreatedAt = now, !.ExpiresAt = now + c.ttl]
        others == SelectSeq(c.lru, LAMBDA r : r.ID # record.ID)
    IN  evictLocked(
            [c EXCEPT !.lastID = IF record.ID > @ THEN record.ID ELSE @,
                      !.lru = <<rec>> \o others],
            now)

\* The operations a goroutine may call and their arguments: the mover puts
\* records; a handler looks records up and changes the settings.
CallsOf(t) ==
    IF t = "writer" THEN {"Put"} \X CacheIDs
    ELSE ({"Get"} \X CacheIDs) \cup {<<"GetLast", 0>>}
         \cup ({"SetTTL", "SetMaxEntries"} \X {0, 1})

LockInit ==
    /\ TokIdle
    /\ SessIdle
    /\ RunIdle
    /\ FindIdle
    /\ MaskIdle
    /\ CacheIdle
    /\ PtyIdle
    /\ stream = NewStream(StreamCfg(0, FALSE), FALSE)
    /\ sink = <<>>
    /\ \E ttl \in {0, 1} : cache = New(1, ttl)
    /\ clock = 1
    /\ puts = 0
    /\ input = <<>>
    /\ pending = <<>>
    /\ closed = FALSE
    /\ escSeen = <<>>
    /\ reported = {}

\* A goroutine calls an operation.  Put begins with its tests of c.ttl and
\* of the record; the others begin with c.mu.Lock().
LockCall(t) ==
    /\ thr[t].pc = "idle"
    /\ thr[t].n < MaxLockOps
    /\ \E call \in CallsOf(t) :
          thr' = [thr EXCEPT ![t] =
                     [pc |-> IF call[1] = "Put" THEN "check" ELSE "acquire",
                      op |-> call[1], arg |-> call[2], n |-> @.n + 1]]
    /\ UNCHANGED <<tokVars, streamVars, sessVars, runVars, cacheVars,
                   findVars, maskVars, sigVars, termVars, inVars, mu>>

\* Put: if c.ttl <= 0 { return }, before the lock is taken.
PutCheck(t) ==
    /\ thr[t].pc = "check"
    /\ thr' = [thr EXCEPT ![t].pc = IF cache.ttl <= 0 THEN "idle"
                                    ELSE "acquire"]
    /\ UNCHANGED <<tokVars, streamVars, sessVars, runVars, cacheVars,
                   findVars, maskVars, sigVars, termVars, inVars, mu>>

\* c.mu.Lock()
LockAcquire(t) ==
    /\ thr[t].pc = "acquire"
    /\ mu = "none"
    /\ mu' = t
    /\ thr' = [thr EXCEPT ![t].pc = "locked"]
    /\ UNCHANGED <<tokVars, streamVars, sessVars, runVars, cacheVars,
                   findVars, maskVars, sigVars, termVars, inVars>>

\* The body of the operation and the deferred c.mu.Unlock().
LockBody(t) ==
    /\ thr[t].pc = "locked"
    /\ LET op == thr[t].op
           arg == thr[t].arg
       IN  cache' =
               CASE op = "Put" ->
                        PutLocked(cache, CacheRecord(arg, <<LetterS>>), clock)
                 [] op = "Get" -> Get(cache, arg, clock).c
                 [] op = "GetLast" -> GetLast(cache, clock).c
                 [] op = "SetTTL" -> SetTTL(cache, arg)
                 [] op = "SetMaxEntries" -> SetMaxEntries(cache, arg, clock)
    /\ mu' = "none"
    /\ thr' = [thr EXCEPT ![t].pc = "idle"]
    /\ UNCHANGED <<tokVars, sessVars, runVars, cacheVars, findVars, maskVars,
                   sigVars, termVars, inVars, stream, sink, clock, input,
                   pending, closed, escSeen, reported, puts>>

LockNext ==
    \E t \in Threads :
        LockCall(t) \/ PutCheck(t) \/ LockAcquire(t) \/ LockBody(t)

SpecLock == LockInit /\ [][LockNext]_vars

\* The goroutine is at a step that reads or writes the state of the cache:
\* the test of c.ttl in Put, or the body of an operation.
AccessesCache(t) == thr[t].pc \in {"check", "locked"}

(***************************************************************************)
(* C36.  Whatever operations the two goroutines call and however their     *)
(* steps interleave, a goroutine that is at a read or a write of the       *)
(* cache's records, ttl or max_entries holds the cache lock.               *)
(***************************************************************************)
C36_AccessUnderLock ==
    \A t \in Threads : AccessesCache(t) => mu = t

\* A record in the cache was stored while caching was on: it expires after
\* it was created.
LockStoredWhileOn ==
    \A i \in 1..Len(cache.lru) :
        cache.lru[i].ExpiresAt > cache.lru[i].CreatedAt

(***************************************************************************)
(* The response filter of copyInput (response_filter.go) and SpecInput:    *)
(* copyInput reads the host's stdin in chunks and writes to the PTY        *)
(* master what the filter lets through.  filter.active says whether        *)
(* time.Now() is before the filter's deadline; time only moves forward.    *)
(***************************************************************************)
\* The index of the byte after the terminator (BEL, or ESC \) found from
\* position i of buf on, or 0 if there is none.  Positions are from 1.
RECURSIVE Osc11Scan(_, _)
Osc11Scan(buf, i) ==
    IF i > Len(buf) THEN 0
    ELSE IF buf[i] = BEL THEN i + 1
    ELSE IF buf[i] = ESC /\ i + 1 <= Len(buf) /\ buf[i + 1] = Backslash
         THEN i + 2
    ELSE Osc11Scan(buf, i + 1)

\* osc11ResponseLen: the length of the OSC 11 response buf begins with.
osc11ResponseLen(buf) ==
    IF Len(buf) < 5 THEN [len |-> 0, ok |-> FALSE]
    ELSE IF buf[1] # ESC \/ buf[2] # RBracket \/ buf[3] # Digit1
            \/ buf[4] # Digit1
         THEN [len |-> 0, ok |-> FALSE]
    ELSE LET start == IF buf[5] = Semicolon THEN 6 ELSE 5
             end == Osc11Scan(buf, start)
         IN  IF end = 0 THEN [len |-> 0, ok |-> FALSE]
             ELSE [len |-> end - 1, ok |-> TRUE]

\* The first position from i on of buf that holds neither a digit nor ';'.
RECURSIVE DsrSkip(_, _)
DsrSkip(buf, i) ==
    IF i > Len(buf) THEN i
    ELSE IF (buf[i] >= Digit0 /\ buf[i] <= Digit9) \/ buf[i] = Semicolon
         THEN DsrSkip(buf, i + 1)
    ELSE i

\* dsrResponseLen: the length of the cursor-position report buf begins with.
dsrResponseLen(buf) ==
    IF Len(buf) < 4 THEN [len |-> 0, ok |-> FALSE]
    ELSE IF buf[1] # ESC \/ buf[2] # LBracket
         THEN [len |-> 0, ok |-> FALSE]
    ELSE LET i == DsrSkip(buf, 3)
             seenDigit == \E j \in 3..(i - 1) :
                              buf[j] >= Digit0 /\ buf[j] <= Digit9
         IN  IF ~seenDigit \/ i > Len(buf) THEN [len |-> 0, ok |-> FALSE]
             ELSE IF buf[i] = LetterR THEN [len |-> i, ok |-> TRUE]
             ELSE [len |-> 0, ok |-> FALSE]

\* The loop of Filter on the buffer.  k is the number of iterations that
\* find f.active() true: at the next one the deadline has passed.
RECURSIVE FilterLoop(_, _, _)
FilterLoop(buffer, out, k) ==
    IF buffer = <<>> THEN [out |-> out, buffer |-> <<>>, expired |-> FALSE]
    ELSE IF k = 0
         THEN [out |-> out \o buffer, buffer |-> <<>>, expired |-> TRUE]
    ELSE IF buffer[1] # ESC
         THEN FilterLoop(Tail(buffer), Append(out, buffer[1]), k - 1)
    ELSE IF Len(buffer) < 2
         THEN [out |-> out, buffer |-> buffer, expired |-> FALSE]
    ELSE IF buffer[2] = RBracket /\ osc11ResponseLen(buffer).ok
         THEN FilterLoop(
                  SubSeq(buffer, osc11ResponseLen(buffer).len + 1, Len(buffer)),
                  out, k - 1)
    ELSE IF buffer[2] = LBracket /\ dsrResponseLen(buffer).ok
         THEN FilterLoop(
                  SubSeq(buffer, dsrResponseLen(buffer).len + 1, Len(buffer)),
                  out, k - 1)
    ELSE FilterLoop(Tail(buffer), Append(out, buffer[1]), k - 1)

\* responseFilter.Filter(in)
Filter(f, in, k) == FilterLoop(f.buffer \o in, <<>>, k)

\* A k for which the deadline does not pass during Filter.
StaysActive(f, in) == Len(f.buffer) + Len(in) + 1

\* What stdin may deliver: the two forms of an OSC 11 response, a
\* cursor-position report, a report between two keys, a control sequence
\* that is no response and a key, and a key and the Escape key.
Osc11BEL == <<ESC, RBracket, Digit1, Digit1, Semicolon, LetterS, BEL>>

Osc11ST == <<ESC, RBracket, Digit1, Digit1, Semicolon, LetterS, ESC, Backslash>>

DsrReport == <<ESC, LBracket, Digit1, Semicolon, Digit1, LetterR>>

StdinTexts ==
    {Osc11BEL, Osc11ST, DsrReport,
     <<LetterS>> \o DsrReport \o <<LetterS>>,
     <<ESC, LBracket, LetterM, LetterS>>,
     <<LetterS, ESC>>}

InInit ==
    /\ TokIdle
    /\ StreamIdle
    /\ SessIdle
    /\ RunIdle
    /\ CacheIdle
    /\ FindIdle
    /\ MaskIdle
    /\ sigCh = <<>>
    /\ sigTaken = <<>>
    /\ ptmxIn = <<>>
    /\ procSignals = <<>>
    /\ resizes = 0
    /\ sigOn = FALSE
    /\ isTTY = FALSE
    /\ hostTerm = "cooked"
    /\ restoreLog = <<>>
    /\ mu = "none"
    /\ thr = [t \in Threads |-> [pc |-> "idle", op |-> "none", arg |-> 0, n |-> 0]]
    /\ stdinText \in StdinTexts
    /\ stdinPos = 0
    /\ filter = [active |-> TRUE, buffer |-> <<>>]
    /\ inPc = "read"
    /\ ptyInput = <<>>

\* reader.Read returns n > 0 bytes and no error: one iteration of the loop
\* of copyInput, up to the test of ctx.Err() that precedes the next Read.
InRead ==
    /\ inPc = "read"
    /\ \E n \in 1..(Len(stdinText) - stdinPos) :
          LET chunk == SubSeq(stdinText, stdinPos + 1, stdinPos + n)
          IN  /\ stdinPos' = stdinPos + n
              /\ IF filter.active
                 THEN \E k \in 0..StaysActive(filter, chunk), still \in BOOLEAN :
                          LET r == Filter(filter, chunk, k)
                              on == still /\ ~r.expired
                          IN  /\ ptyInput' = ptyInput \o r.out \o
                                     (IF on THEN <<>> ELSE r.buffer)
                              /\ filter' = [active |-> on,
                                            buffer |-> IF on THEN r.buffer
                                                       ELSE <<>>]
                 ELSE /\ ptyInput' = ptyInput \o filter.buffer \o chunk
                      /\ filter' = [filter EXCEPT !.buffer = <<>>]
    /\ inPc' = IF ctxDone THEN "done" ELSE "read"
    /\ UNCHANGED <<tokVars, streamVars, sessVars, runVars, cacheVars,
                   findVars, maskVars, sigVars, termVars, lockVars,
                   stdinText>>

\* reader.Read returns an error (io.EOF at the end of stdin): what the
\* filter holds is written and copyInput returns.
InEOF ==
    /\ inPc = "read"
    /\ stdinPos = Len(stdinText)
    /\ ptyInput' = ptyInput \o filter.buffer
    /\ filter' = [filter EXCEPT !.buffer = <<>>]
    /\ inPc' = "done"
    /\ UNCHANGED <<tokVars, streamVars, sessVars, runVars, cacheVars,
                   findVars, maskVars, sigVars, termVars, lockVars,
                   stdinText, stdinPos>>

\* The deadline of the filter passes while copyInput is in reader.Read.
InExpire ==
    /\ filter.active
    /\ filter' = [filter EXCEPT !.active = FALSE]
    /\ UNCHANGED <<tokVars, streamVars, sessVars, runVars, cacheVars,
                   findVars, maskVars, sigVars, termVars, lockVars,
                   stdinText, stdinPos, inPc, ptyInput>>

\* RunCommand calls cancel() after the child has exited.
InCancel ==
    /\ ~ctxDone
    /\ ctxDone' = TRUE
    /\ UNCHANGED <<tokVars, streamVars, sessVars, cacheVars, findVars,
                   maskVars, ptyVars, runPc, moverPc, errCh, ptmxClosed,
                   outClosed, child, ptyData, moved, runFail, runResult>>

InNext == InRead \/ InEOF \/ InExpire \/ InCancel

SpecInput == InInit /\ [][InNext]_vars

\* Time passes: the deadline is reached.  Neither the user nor the child
\* owes the program a step.
SpecInputLive == SpecInput /\ WF_vars(InExpire)

\* a is a prefix of b.
IsPrefix(a, b) == Len(a) <= Len(b) /\ SubSeq(b, 1, Len(a)) = a

\* The text without the responses the filter recognises in it: what Filter
\* lets through when it is handed the whole text at once.
Stripped(text) ==
    Filter([active |-> TRUE, buffer |-> <<>>], text, Len(text) + 1).out

(***************************************************************************)
(* C37.  While the filter is active, whatever the reads the bytes of       *)
(* stdin arrive in, nothing of an OSC 11 response or of a cursor-position  *)
(* report has been written to the PTY master: what has been written is a   *)
(* prefix of the input without its responses.                              *)
(***************************************************************************)
C37_SplitResponseRemoved ==
    filter.active => IsPrefix(ptyInput, Stripped(stdinText))

(***************************************************************************)
(* C38.  Once the startup window has expired, the bytes the filter has     *)
(* retained are written to the PTY master: the filter's buffer becomes     *)
(* empty whether or not stdin delivers anything more.                      *)
(***************************************************************************)
C38_RetainedFlushedAtExpiry ==
    (~filter.active) ~> (filter.buffer = <<>>)

\* After the window nothing is removed: a read made with the window
\* expired adds its bytes, behind the retained ones, to the PTY's input.
C38_PassThroughAfterWindow ==
    [][(~filter.active /\ stdinPos' > stdinPos) =>
          ptyInput' = ptyInput \o filter.buffer
                          \o SubSeq(stdinText, stdinPos + 1, stdinPos')]_vars

(***************************************************************************)
(* SpecAlt: the stream with the status line on, fed whole terminal         *)
(* sequences: a labelled secret on a line, the escapes that enter and      *)
(* leave the alternate screen, and a device control string that is never   *)
(* terminated and quotes the enter sequence.  The mover hands the stream   *)
(* any prefix of what has accumulated.                                     *)
(***************************************************************************)
AltChunks ==
    {<<LetterK, EqualsSign, LetterS, Newline>>,
     <<ESC, 91, 63, 52, 55, 104>>,
     <<ESC, 91, 63, 52, 55, 108>>,
     <<ESC, LetterP, 91, 63, 52, 55, 104>>}

AltInit ==
    /\ TokIdle
    /\ ExtIdle
    /\ SessIdle
    /\ \E window \in {0, 2} :
          stream = NewStream(StreamCfg(window, TRUE), FALSE)
    /\ sink = <<>>
    /\ cache = NoCache
    /\ clock = 1
    /\ puts = 0
    /\ input = <<>>
    /\ pending = <<>>
    /\ closed = FALSE
    /\ escSeen = <<>>
    /\ reported = {}

\* The child writes a sequence to the PTY.
AltProduce ==
    /\ ~closed
    /\ pending = <<>>
    /\ \E chunk \in AltChunks :
          /\ Len(input) + Len(chunk) <= MaxAltLen
          /\ pending' = chunk
    /\ UNCHANGED <<extVars, tokVars, stream, sink, cache, clock, puts, input,
                   closed, escSeen, reported, sessVars>>

\* The mover reads some of the bytes and hands them to Stream.Write.
AltWrite ==
    /\ ~closed
    /\ \E n \in 1..Len(pending) :
          /\ Commit(Write(World, SubSeq(pending, 1, n)))
          /\ input' = input \o SubSeq(pending, 1, n)
          /\ pending' = SubSeq(pending, n + 1, Len(pending))
    /\ UNCHANGED <<extVars, tokVars, clock, closed, sessVars>>

AltNext == AltProduce \/ AltWrite \/ StrClose

SpecAlt == AltInit /\ [][AltNext]_vars

\* The escape is one of the enter sequences, or one of the exit sequences.
IsAltEnter(esc) == \E pat \in AltEnter : Contains(esc, pat)

IsAltExit(esc) == ~IsAltEnter(esc) /\ \E pat \in AltLeave : Contains(esc, pat)

RECURSIVE AltAfter(_)
\* Whether the most recent alt-screen escape of a sequence of escapes is an
\* enter sequence; FALSE when the sequence has no alt-screen escape.
AltAfter(escapes) ==
    IF escapes = <<>> THEN FALSE
    ELSE LET last == escapes[Len(escapes)]
         IN  IF IsAltEnter(last) THEN TRUE
             ELSE IF IsAltExit(last) THEN FALSE
             ELSE AltAfter(SubSeq(escapes, 1, Len(escapes) - 1))

\* The escape is a whole sequence: the tokenizer returns it from Push.  The
\* partial escape that Flush drains at the end is not.
WholeEscape(esc) == Push(NewTokenizer, esc).t.state = "stateText"

\* The bytes of the escapes among the first n writes to the sink.
SinkEscapes(n) ==
    LET escs == SelectSeq(SubSeq(sink, 1, n), LAMBDA e : e.kind = "esc")
    IN  [i \in 1..Len(escs) |-> escs[i].bytes]

EscapesSeen == [i \in 1..Len(escSeen) |-> escSeen[i].bytes]

\* C39 as stated, over every ESCAPE segment the stream has been given:
\* those of Write and the partial one Flush drains.
C39_AltScreenAfterAnyEscape ==
    /\ stream.altScreen = AltAfter(EscapesSeen)
    /\ \A i \in 1..Len(sink) :
          sink[i].kind = "status" => ~AltAfter(SinkEscapes(i - 1))

(***************************************************************************)
(* C39.  After any sequence of writes, alt_screen is true exactly when the *)
(* most recent alt-screen escape among the whole ESCAPE segments seen was  *)
(* an enter sequence, and every status line in the sink was written when   *)
(* the most recent alt-screen escape written before it was not an enter    *)
(* sequence (alt_screen false).                                            *)
(***************************************************************************)
C39_AltScreenTracksEscapes ==
    /\ stream.altScreen = AltAfter(SelectSeq(EscapesSeen, WholeEscape))
    /\ \A i \in 1..Len(sink) :
          sink[i].kind = "status" =>
              ~AltAfter(SelectSeq(SinkEscapes(i - 1), WholeEscape))

\* The alternate screen was entered and left, a secret was then written and
\* its status line follows it.
C39_Witness ==
    /\ ~stream.altScreen
    /\ Len(escSeen) = 2
    /\ IsAltEnter(escSeen[1].bytes)
    /\ IsAltExit(escSeen[2].bytes)
    /\ \E i \in 1..Len(sink) :
          sink[i].kind = "status" /\ Len(SinkEscapes(i - 1)) = 2

\* A secret was written while the alternate screen was on: no status line.
C39_WitnessSuppressed ==
    /\ stream.altScreen
    /\ stream.buffer = <<>>
    /\ closed
    /\ \E i \in 1..Len(sink) : sink[i].kind = "text" /\ Len(SinkEscapes(i)) = 1
    /\ \A i \in 1..Len(sink) : sink[i].kind # "status"

(***************************************************************************)
(* SpecToken: the redactor of SpecMask with stable_hash_token on or off.   *)
(* The redactor keeps its salt from the first stableHashToken call on.     *)
(* HMAC-SHA256 is stood for by a keyed digest of the same shape: DigestLen *)
(* hex digits computed from the key and the message, and from nothing      *)
(* else.                                                                   *)
(***************************************************************************)
RECURSIVE WeightedSum(_, _)
\* The sum of the bytes, the j-th weighted by w + j.
WeightedSum(bytes, w) ==
    IF bytes = <<>> THEN 0
    ELSE Head(bytes) * (w + 1) + WeightedSum(Tail(bytes), w + 1)

\* hex.EncodeToString(h.Sum(nil)) for h := hmac.New(sha256.New, key) after
\* the writes of message: the i-th digit mixes the bytes of the key, the
\* j-th weighted by i + j, with those of the message, weighted by 2i + j.
HmacHex(key, message) ==
    LET k0 == WeightedSum(key, 0)
        k1 == WeightedSum(key, 1) - k0
        m0 == WeightedSum(message, 0)
        m1 == WeightedSum(message, 1) - m0
    IN  [i \in 1..DigestLen |->
            randomHexNibble(k0 + k1 * i + m0 + 2 * m1 * i, FALSE)]

\* Redactor.stableHashToken, the redactor's salt being salt.
stableHashToken(salt, tagLen, match) ==
    LET tag == HmacHex(salt, match.RuleName \o <<Pipe>>
                             \o SecretTypeBytes(match.SecretType))
        cut == IF tagLen > 0 /\ tagLen < Len(tag) THEN SubSeq(tag, 1, tagLen)
               ELSE tag
    IN  <<226, 159, 166, 77, 65, 83, 75, 58>>
        \o SecretTypeBytes(match.SecretType) \o <<58>> \o cut
        \o <<226, 159, 167>>

\* Redactor.maskBytes, stable_hash_token included.
maskBytesWith(r, original, match, rnd) ==
    IF r.StableHashEnabled THEN stableHashToken(r.salt, r.TagLen, match)
    ELSE maskBytesOf(r, original, match, rnd)

\* A replacement that knows no placeholder action.
replacementWithoutPlaceholder(r, original, match, rnd) ==
    LET action == IF match.Action = "" THEN r.DefaultAction
                  ELSE match.Action
    IN  CASE action = "mask" -> maskBytesWith(r, original, match, rnd)
          [] OTHER -> original

\* Redactor.replacement, stable_hash_token included.
replacementWith(r, original, match, rnd) ==
    LET action == IF match.Action = "" THEN r.DefaultAction
                  ELSE match.Action
    IN  CASE action = "mask" -> maskBytesWith(r, original, match, rnd)
          [] action = "placeholder" -> placeholderOf(r, match)
          [] OTHER -> original

\* What io.ReadFull(r.rng, r.salt) may yield, and the names of two rules.
Salts == {<<1, 2>>, <<2, 1>>}

TokenRuleNames == {<<101, 110, 118>>, <<116, 111, 107>>}

\* The spans the redactor is handed: 0, ag, 0xa and U+2588.
TokenSpans == {<<48>>, <<97, 103>>, <<48, 120, 97>>, BlockChar}

\* The redactors: a configuration and no salt yet.
TokenRedactors ==
    {[DefaultAction |-> "mask", PlaceholderTemplate |-> template,
      BlockChar |-> BlockChar, Uppercase |-> FALSE,
      StableHashEnabled |-> enabled, TagLen |-> tagLen, salt |-> <<>>] :
        template \in MaskTemplates, enabled \in BOOLEAN, tagLen \in {0, 4}}

\* r := NewRedactor(cfg)
TokenNew ==
    /\ maskPc = "new"
    /\ maskCfg' \in TokenRedactors
    /\ maskPc' = "ready"
    /\ UNCHANGED <<tokVars, streamVars, sessVars, runVars, cacheVars,
                   findVars, ptyVars, maskIn, maskOut>>

\* The action of the match, the default action standing in for none.
TokenAction(r, match) ==
    IF match.Action = "" THEN r.DefaultAction ELSE match.Action

\* r.replacement(original, match): stableHashToken draws the salt when the
\* redactor has none.
TokenReplace ==
    /\ maskPc \in {"ready", "done"}
    /\ \E original \in TokenSpans, action \in {"", "mask", "placeholder"},
          secretType \in {"EVM_PK", "PASSWORD"}, name \in TokenRuleNames,
          id \in {3, 12}, fresh \in Salts :
          LET match == [Action |-> action, SecretType |-> secretType,
                        RuleName |-> name, ID |-> id]
              hashed == TokenAction(maskCfg, match) = "mask"
                        /\ maskCfg.StableHashEnabled
              r == IF hashed /\ Len(maskCfg.salt) = 0
                   THEN [maskCfg EXCEPT !.salt = fresh] ELSE maskCfg
              drawn == IF TokenAction(maskCfg, match) = "mask" /\ ~hashed
                          /\ (secretType = "EVM_PK" \/ looksHex(original))
                       THEN [1..(Len(original)
                                 - IF has0xPrefix(original) THEN 2 ELSE 0)
                             -> {0}]
                       ELSE {<<>>}
          IN  \E rnd \in drawn :
                 /\ maskIn' = [original |-> original, match |-> match,
                               rnd |-> rnd]
                 /\ maskOut' = replacementWith(r, original, match, rnd)
                 /\ maskCfg' = r
    /\ maskPc' = "done"
    /\ UNCHANGED <<tokVars, streamVars, sessVars, runVars, cacheVars,
                   findVars, ptyVars>>

TokenNext == TokenNew \/ TokenReplace

SpecToken == MaskInit /\ [][TokenNext]_vars

\* The replacement just made was a placeholder or a stable hash token.
TokenRendered ==
    /\ maskPc = "done"
    /\ \/ TokenAction(maskCfg, maskIn.match) = "placeholder"
       \/ TokenAction(maskCfg, maskIn.match) = "mask"
          /\ maskCfg.StableHashEnabled

C40_WitnessToken ==
    /\ maskPc = "done"
    /\ maskIn.match.Action = "mask"
    /\ maskCfg.StableHashEnabled
    /\ maskCfg.TagLen = 4
    /\ maskCfg.salt = <<1, 2>>
    /\ looksHex(maskIn.original)
    /\ Len(maskOut) = 8 + 6 + 1 + 4 + 3
    /\ SubSeq(maskOut, 1, 8) = <<226, 159, 166, 77, 65, 83, 75, 58>>

\* The token depends on what it is made from: another salt, rule name or
\* secret type gives another token.
C40_TokenTellsApart ==
    \A s1, s2 \in Salts, n1, n2 \in TokenRuleNames,
       t1, t2 \in {"EVM_PK", "PASSWORD"} :
        LET m1 == [Action |-> "mask", SecretType |-> t1, RuleName |-> n1, ID |-> 3]
            m2 == [Action |-> "mask", SecretType |-> t2, RuleName |-> n2, ID |-> 3]
        IN  stableHashToken(s1, 4, m1) = stableHashToken(s2, 4, m2) =>
                (s1 = s2 /\ n1 = n2 /\ t1 = t2)
====
